---- MODULE Spec2Model ----
(***************************************************************************)
(* Educational video player: the unified player state machine (native      *)
(* hook, Vimeo adapter, YouTube adapter), the data-fetch hooks and the     *)
(* REST client's response normalisation and pagination arithmetic.         *)
(*                                                                         *)
(* Fractions in [0,1] (volume, played, loaded) are integers in hundredths; *)
(* wall-clock time advances in ticks of 1000 ms.                           *)
(***************************************************************************)
EXTENDS Integers, Sequences, FiniteSets, TLC

(***************************************************************************)
(* REST client (src/src/lib/api-client.ts)                                 *)
(***************************************************************************)

VARIABLES request, response

VARIABLES hook, hookState, calls, hlast

\* CommentSection, the component that submits through useCreateComment:
\* its state, the last toast it showed and where handleSubmit is waiting.
VARIABLES newComment, isSubmitting, apiError, toast, submitAt

\* The player instance mounted on the page (one of the three adapters);
\* fresh holds from the mount (or page reload) until the first event is handled.
VARIABLES adapter, mounted, state, hideTimers, controlsTimeoutRef,
          pollInterval, pollTimeout, enginePlaying, forwarded, fresh

\* The Vimeo adapter's controller, its listeners and its injected scripts;
\* keyHandlerPlaying is the `playing` the installed keydown handler closes over.
VARIABLES player, listeners, scriptTags, scriptPending, durationPending,
          keyHandlerPlaying

apiVars == <<request, response>>

commentVars == <<newComment, isSubmitting, apiError, toast, submitAt>>

hookVars == <<hook, hookState, calls, hlast, commentVars>>

vimeoVars == <<player, listeners, scriptTags, scriptPending, durationPending,
               keyHandlerPlaying>>

pollVars == <<pollInterval, pollTimeout>>

playerVars == <<adapter, mounted, state, hideTimers, controlsTimeoutRef,
                pollInterval, pollTimeout, enginePlaying, forwarded, fresh,
                vimeoVars>>

\* ---- JavaScript values as they come out of JSON.parse -------------------
JNull == [t |-> "null"]
JUndef == [t |-> "undefined"]
JNaN == [t |-> "NaN"]
JNum(n) == [t |-> "number", n |-> n]
JArr(items) == [t |-> "array", items |-> items]
JObj(fields) == [t |-> "object", f |-> fields]
JStr(text) == [t |-> "string", s |-> text]

\* A text is either the JSON encoding of a value or text that is not JSON.
JsonText(v) == [json |-> TRUE, v |-> v]
RawText == [json |-> FALSE]

\* The outcome of evaluating an expression that may throw.
Ok(v) == [ok |-> TRUE, v |-> v]
Threw(code) == [ok |-> FALSE, code |-> code]

\* JSON.parse(text): the encoded value, or a SyntaxError.
JSONparse(text) == IF text.json THEN Ok(text.v) ELSE Threw("SyntaxError")

\* typeof x === 'string'
IsString(x) == x.t = "string"

\* typeof x === 'object' && x !== null   (arrays are objects)
IsNonNullObject(x) == x.t \in {"object", "array"}

\* Array.isArray(x)
IsArray(x) == x.t = "array"

\* Truthiness of a value used as a condition or as an operand of ||.
Truthy(x) ==
  CASE x.t \in {"null", "undefined", "NaN"} -> FALSE
    [] x.t = "number" -> x.n # 0
    [] x.t = "string" -> TRUE
    [] OTHER -> TRUE

\* a || b
Or(a, b) == IF Truthy(a) THEN a ELSE b

\* x.name for x that is neither null nor undefined (those throw a TypeError).
Get(x, name) ==
  CASE x.t = "object" -> IF name \in DOMAIN x.f THEN x.f[name] ELSE JUndef
    [] x.t = "array" -> IF name = "length" THEN JNum(Len(x.items)) ELSE JUndef
    [] OTHER -> JUndef

\* Whether x.name throws: property access on null or undefined.
GetThrows(x) == x.t \in {"null", "undefined"}

\* ApiClient.request on a 2xx response: JSON.parse of the body text, and the
\* text itself as a string when the body is not JSON.
requestBody(body) ==
  IF JSONparse(body).ok THEN JSONparse(body).v ELSE JStr(body)

ParseError == Threw("PARSE_ERROR")

\* The body shared by getVideos and getComments: the list under `field` of a
\* wrapper object, a raw array, or whatever a JSON-encoded string parses to.
listResponse(resp, field) ==
  IF IsString(resp)
  THEN LET p == JSONparse(resp.s) IN
       IF ~p.ok \/ GetThrows(p.v) THEN ParseError
       ELSE IF Truthy(Get(p.v, field)) /\ IsArray(Get(p.v, field))
            THEN Ok(Get(p.v, field))
            ELSE Ok(p.v)
  ELSE IF IsNonNullObject(resp)
  THEN IF Truthy(Get(resp, field)) /\ IsArray(Get(resp, field))
       THEN Ok(Get(resp, field))
       ELSE IF IsArray(resp) THEN Ok(resp) ELSE ParseError
  ELSE ParseError

getVideos(body) == listResponse(requestBody(body), "videos")

getComments(body) == listResponse(requestBody(body), "comments")

\* Math.ceil(total / limit) for limit >= 1; NaN when total is not a number.
MathCeilDiv(total, limit) ==
  IF total.t = "number"
  THEN JNum(IF total.n >= 0 THEN (total.n + limit - 1) \div limit
                            ELSE -((-total.n) \div limit))
  ELSE JNaN

\* page < x, false when x is NaN.
NumLess(page, x) == x.t = "number" /\ page < x.n

\* videos = r.videos || r.data || r;  total = r.total || r.count || videos.length
paginatedVideos(r) == Or(Or(Get(r, "videos"), Get(r, "data")), r)

paginatedTotal(r) ==
  Or(Or(Get(r, "total"), Get(r, "count")), Get(paginatedVideos(r), "length"))

paginatedResult(videos, total, page, limit) ==
  LET totalPages == MathCeilDiv(total, limit) IN
  Ok([data |-> videos,
      pagination |-> [page |-> page, limit |-> limit, total |-> total,
                      totalPages |-> totalPages,
                      hasNext |-> NumLess(page, totalPages),
                      hasPrev |-> page > 1]])

getVideosPaginated(body, page, limit) ==
  LET resp == requestBody(body) IN
  IF IsString(resp)
  THEN LET p == JSONparse(resp.s) IN
       IF ~p.ok \/ GetThrows(p.v) THEN ParseError
       ELSE paginatedResult(paginatedVideos(p.v), paginatedTotal(p.v), page, limit)
  ELSE IF IsNonNullObject(resp)
  THEN paginatedResult(paginatedVideos(resp), paginatedTotal(resp), page, limit)
  ELSE paginatedResult(JArr(<<>>), JNum(0), page, limit)

\* createPaginatedResponse(data, {page, limit, total}).pagination
createPaginatedResponse(data, page, limit, total) ==
  [data |-> data,
   pagination |-> [page |-> page, limit |-> limit, total |-> JNum(total),
                   totalPages |-> MathCeilDiv(JNum(total), limit),
                   hasNext |-> page * limit < total,
                   hasPrev |-> page > 1]]

\* ---- inputs of the REST client ------------------------------------------
MaxItems == 3
MaxPage == 3
MaxLimit == 12
MaxTotal == 25

\* A page of MaxItems or fewer items; an item is its position in the listing.
Lists == {[i \in 1..n |-> i] : n \in 0..MaxItems}

WrapperFields == {"videos", "comments", "data"}

\* The values a 2xx body can decode to: a raw array, a wrapper object (with or
\* without total / count), an object without a collection, a number, null.
Values ==
  {JArr(l) : l \in Lists}
  \cup {JObj([k \in {w} |-> JArr(l)]) : w \in WrapperFields, l \in Lists}
  \cup {JObj([k \in {"videos", "total"} |->
               IF k = "videos" THEN JArr(l) ELSE JNum(n)]) :
          l \in Lists, n \in 0..MaxTotal}
  \cup {JObj([k \in {"videos", "count"} |->
               IF k = "videos" THEN JArr(l) ELSE JNum(n)]) :
          l \in Lists, n \in {0, MaxTotal}}
  \cup {JObj([k \in {"message"} |-> JNum(1)]), JNum(5), JNum(0), JNull}

\* The body texts: JSON of a value, JSON of a string that itself holds JSON of
\* a value, JSON of a string that holds no JSON, and text that is not JSON.
Bodies ==
  {JsonText(v) : v \in Values}
  \cup {JsonText(JStr(JsonText(v))) : v \in Values}
  \cup {JsonText(JStr(RawText)), RawText}

Pending == Threw("pending")

Requests ==
  [endpoint : {"getVideos", "getComments"}, body : Bodies,
   page : {1}, limit : {MaxLimit}, total : {0}]
  \cup [endpoint : {"getVideosPaginated"}, body : Bodies,
        page : 1..MaxPage, limit : 1..MaxLimit, total : {0}]
  \cup [endpoint : {"createPaginatedResponse"}, body : {JsonText(JArr(<<>>))},
        page : 1..MaxPage, limit : 1..MaxLimit, total : 0..MaxTotal]

ApiInit == request \in Requests /\ response = Pending

ApiIdle ==
  /\ request = [endpoint |-> "none", body |-> RawText, page |-> 1,
                limit |-> MaxLimit, total |-> 0]
  /\ response = Pending

ApiGetVideos ==
  /\ request.endpoint = "getVideos" /\ response = Pending
  /\ response' = getVideos(request.body)
  /\ UNCHANGED <<request, hookVars, playerVars>>

ApiGetComments ==
  /\ request.endpoint = "getComments" /\ response = Pending
  /\ response' = getComments(request.body)
  /\ UNCHANGED <<request, hookVars, playerVars>>

ApiGetVideosPaginated ==
  /\ request.endpoint = "getVideosPaginated" /\ response = Pending
  /\ response' = getVideosPaginated(request.body, request.page, request.limit)
  /\ UNCHANGED <<request, hookVars, playerVars>>

ApiCreatePaginatedResponse ==
  /\ request.endpoint = "createPaginatedResponse" /\ response = Pending
  /\ response' = Ok(createPaginatedResponse(JArr(<<>>), request.page,
                                            request.limit, request.total))
  /\ UNCHANGED <<request, hookVars, playerVars>>

ApiNext ==
  \/ ApiGetVideos
  \/ ApiGetComments
  \/ ApiGetVideosPaginated
  \/ ApiCreatePaginatedResponse

(***************************************************************************)
(* Data-fetch hooks (use-api.ts)                                           *)
(***************************************************************************)

MaxCalls == 3

\* error: ApiError | null
NoError == [code |-> "null", message |-> "null"]

\* The ways the awaited API call can settle: a value, a rejection with an
\* AppError, with another Error, or with a value that is no Error at all.
DataValues == {"d1", "d2"}

Resolutions == [kind : {"resolve"}, data : DataValues, hasNext : BOOLEAN,
                code : {"null"}, message : {"null"}]

Rejections ==
  [kind : {"AppError"}, data : {"null"}, hasNext : {FALSE},
   code : {"API_ERROR", "PARSE_ERROR"}, message : {"HTTP 500"}]
  \cup [kind : {"Error"}, data : {"null"}, hasNext : {FALSE},
        code : {"null"}, message : {"Failed to fetch"}]
  \cup [kind : {"other"}, data : {"null"}, hasNext : {FALSE},
        code : {"null"}, message : {"null"}]

Outcomes == Resolutions \cup Rejections

\* error instanceof AppError ? error
\*   : new AppError(error instanceof Error ? error.message : fallback, code)
toAppError(outcome, fallbackMessage, fallbackCode) ==
  IF outcome.kind = "AppError"
  THEN [code |-> outcome.code, message |-> outcome.message]
  ELSE [code |-> fallbackCode,
        message |-> IF outcome.kind = "Error" THEN outcome.message
                    ELSE fallbackMessage]

convertToApiError(appError) ==
  [code |-> appError.code, message |-> appError.message]

\* ---- useApi --------------------------------------------------------------
useApiInitial == [data |-> "null", loading |-> "idle", error |-> NoError]

\* execute that does not clear the error when it starts.
executeStart_KeepError(prev) == [prev EXCEPT !.loading = "loading"]

\* execute, up to its await.
executeStart(prev) == [prev EXCEPT !.loading = "loading", !.error = NoError]

\* execute without its catch block: a rejection of the API call escapes.
executeSettle_NoCatch(prev, outcome) ==
  IF outcome.kind = "resolve"
  THEN [state |-> [data |-> outcome.data, loading |-> "success",
                   error |-> NoError],
        promise |-> "resolved", ret |-> "void"]
  ELSE [state |-> prev, promise |-> "rejected", ret |-> "none"]

\* execute, from its await on: the state it writes and how its promise settles.
executeSettle(prev, outcome) ==
  IF outcome.kind = "resolve"
  THEN [state |-> [data |-> outcome.data, loading |-> "success",
                   error |-> NoError],
        promise |-> "resolved", ret |-> "void"]
  ELSE [state |-> [data |-> "null", loading |-> "error",
                   error |-> convertToApiError(
                     toAppError(outcome, "An unexpected error occurred",
                                "UNKNOWN_ERROR"))],
        promise |-> "resolved", ret |-> "void"]

\* ---- useVideosPaginated --------------------------------------------------
initialPage == 1

\* The items the server lists on a page.
PageItems(pageNum) == <<10 * pageNum + 1, 10 * pageNum + 2>>

paginatedInitial ==
  [page |-> initialPage, hasMore |-> TRUE, videos |-> <<>>,
   loading |-> FALSE, error |-> NoError]

\* loadVideos, up to its await.
loadVideosStart(prev) == [prev EXCEPT !.loading = TRUE, !.error = NoError]

\* loadVideos, from its await on (try / catch / finally).
loadVideosSettle(prev, pageNum, append, outcome) ==
  IF outcome.kind = "resolve"
  THEN [state |-> [prev EXCEPT
                     !.videos = IF append THEN prev.videos \o PageItems(pageNum)
                                ELSE PageItems(pageNum),
                     !.hasMore = outcome.hasNext,
                     !.page = pageNum,
                     !.loading = FALSE],
        promise |-> "resolved", ret |-> "void"]
  ELSE [state |-> [prev EXCEPT
                     !.error = convertToApiError(
                       toAppError(outcome, "Failed to load videos",
                                  "LOAD_VIDEOS_ERROR")),
                     !.loading = FALSE],
        promise |-> "resolved", ret |-> "void"]

\* ---- useCreateVideo / useCreateComment -----------------------------------
mutationInitial == [loading |-> FALSE, error |-> NoError, success |-> FALSE]

mutationStart == [loading |-> TRUE, error |-> NoError, success |-> FALSE]

mutationSettle(outcome, fallbackMessage, fallbackCode) ==
  IF outcome.kind = "resolve"
  THEN [state |-> [loading |-> FALSE, error |-> NoError, success |-> TRUE],
        promise |-> "resolved", ret |-> "true"]
  ELSE [state |-> [loading |-> FALSE,
                   error |-> convertToApiError(
                     toAppError(outcome, fallbackMessage, fallbackCode)),
                   success |-> FALSE],
        promise |-> "resolved", ret |-> "false"]

createVideoSettle(outcome) ==
  mutationSettle(outcome, "Failed to create video", "CREATE_VIDEO_ERROR")

createCommentSettle(outcome) ==
  mutationSettle(outcome, "Failed to create comment", "CREATE_COMMENT_ERROR")

\* ---- calls in flight -----------------------------------------------------
Hooks == {"useApi", "useVideosPaginated", "useCreateVideo", "useCreateComment"}

\* A call keeps how its API call settled and the data it resolved with.
NewCall(pageNum, append) ==
  [promise |-> "pending", ret |-> "none", outcome |-> "none",
   data |-> "none", pageNum |-> pageNum, append |-> append]

\* The useState initial values of CommentSection; nothing submitted.
CommentIdle ==
  /\ newComment = <<>>
  /\ isSubmitting = FALSE
  /\ apiError = NoError
  /\ toast = "none"
  /\ submitAt = "idle"

\* The initial-load effect of useVideosPaginated has run: page 1 is in flight.
HookInit ==
  /\ CommentIdle
  /\ hook \in Hooks
  /\ hookState = CASE hook = "useApi" -> useApiInitial
                   [] hook = "useVideosPaginated" ->
                        loadVideosStart(paginatedInitial)
                   [] OTHER -> mutationInitial
  /\ calls = IF hook = "useVideosPaginated"
             THEN <<NewCall(initialPage, FALSE)>> ELSE <<>>
  /\ hlast = 0

HookIdle ==
  /\ CommentIdle
  /\ hook = "none"
  /\ hookState = mutationInitial
  /\ calls = <<>>
  /\ hlast = 0

StartCall(pageNum, append) ==
  /\ Len(calls) < MaxCalls
  /\ calls' = Append(calls, NewCall(pageNum, append))
  /\ hlast' = 0
  /\ UNCHANGED <<hook, commentVars, apiVars, playerVars>>

SettleCall(id, outcome, result) ==
  /\ hookState' = result.state
  /\ calls' = [calls EXCEPT ![id].promise = result.promise,
                            ![id].ret = result.ret,
                            ![id].outcome = outcome.kind,
                            ![id].data = outcome.data]
  /\ hlast' = id
  /\ UNCHANGED <<hook, commentVars, apiVars, playerVars>>

UseApiRefetch ==
  /\ hook = "useApi"
  /\ hookState' = executeStart(hookState)
  /\ StartCall(0, FALSE)

\* execute with a sequence guard: only the response of the latest call is
\* written to the state.
UseApiSettleWith_LatestOnly(id, outcome) ==
  /\ hook = "useApi"
  /\ id \in 1..Len(calls) /\ calls[id].promise = "pending"
  /\ SettleCall(id, outcome,
                IF id = Len(calls) THEN executeSettle(hookState, outcome)
                ELSE [executeSettle(hookState, outcome)
                        EXCEPT !.state = hookState])

\* The API call of execute number id settles with outcome.
UseApiSettleWith(id, outcome) ==
  /\ hook = "useApi"
  /\ id \in 1..Len(calls) /\ calls[id].promise = "pending"
  /\ SettleCall(id, outcome, executeSettle(hookState, outcome))

UseApiSettle ==
  \E id \in 1..MaxCalls, outcome \in Outcomes : UseApiSettleWith(id, outcome)

UseApiReset ==
  /\ hook = "useApi"
  /\ hookState' = useApiInitial
  /\ hlast' = 0
  /\ UNCHANGED <<hook, calls, commentVars, apiVars, playerVars>>

PaginatedLoadNextPage ==
  /\ hook = "useVideosPaginated"
  /\ ~hookState.loading /\ hookState.hasMore
  /\ hookState' = loadVideosStart(hookState)
  /\ StartCall(hookState.page + 1, TRUE)

PaginatedRefresh ==
  /\ hook = "useVideosPaginated"
  /\ hookState' = loadVideosStart([hookState EXCEPT !.videos = <<>>,
                                                    !.page = initialPage,
                                                    !.hasMore = TRUE])
  /\ StartCall(initialPage, FALSE)

PaginatedSettle ==
  /\ hook = "useVideosPaginated"
  /\ \E id \in 1..Len(calls), outcome \in Outcomes :
       /\ calls[id].promise = "pending"
       /\ SettleCall(id, outcome,
                     loadVideosSettle(hookState, calls[id].pageNum,
                                      calls[id].append, outcome))

CreateVideoStart ==
  /\ hook = "useCreateVideo"
  /\ hookState' = mutationStart
  /\ StartCall(0, FALSE)

CreateVideoSettle ==
  /\ hook = "useCreateVideo"
  /\ \E id \in 1..Len(calls), outcome \in Outcomes :
       /\ calls[id].promise = "pending"
       /\ SettleCall(id, outcome, createVideoSettle(outcome))

CreateCommentStart ==
  /\ hook = "useCreateComment"
  /\ hookState' = mutationStart
  /\ StartCall(0, FALSE)

CreateCommentSettle ==
  /\ hook = "useCreateComment"
  /\ \E id \in 1..Len(calls), outcome \in Outcomes :
       /\ calls[id].promise = "pending"
       /\ SettleCall(id, outcome, createCommentSettle(outcome))

MutationReset ==
  /\ hook \in {"useCreateVideo", "useCreateComment"}
  /\ hookState' = mutationInitial
  /\ hlast' = 0
  /\ UNCHANGED <<hook, calls, commentVars, apiVars, playerVars>>

HookNext ==
  \/ UseApiRefetch
  \/ UseApiSettle
  \/ UseApiReset
  \/ PaginatedLoadNextPage
  \/ PaginatedRefresh
  \/ PaginatedSettle
  \/ CreateVideoStart
  \/ CreateVideoSettle
  \/ CreateCommentStart
  \/ CreateCommentSettle
  \/ MutationReset

(***************************************************************************)
(* Unified player state machine: native hook (useVideoPlayer.ts) and its   *)
(* component (VideoPlayer.tsx)                                             *)
(***************************************************************************)

MaxTimers == 2

\* setTimeout(..., 3000), setInterval(..., 1000), setTimeout(..., 10000) in
\* ticks of 1000 ms.
HideDelay == 3
PollEvery == 1
PollGiveUp == 10

NoTimer == 0 - 1

\* Values the environment supplies.  Fractions are in hundredths; handleSeek
\* is also given fractions outside [0,1] (the slider itself emits 0..1).
VolumeInputs == {0, 50}
SeekFractions == {-20, 50, 130}
ProgressPlayed == {50, 100}
ProgressLoaded == {0, 55, 100}
Durations == {60}
RateInputs == {150}

NoCommand == [cmd |-> "none", time |-> 0]

\* useState initial value of useVideoPlayer.
nativeInitialState ==
  [playing |-> FALSE, volume |-> 80, muted |-> TRUE, played |-> 0,
   duration |-> 0, showControls |-> TRUE, error |-> "null",
   playbackRate |-> 100, loading |-> TRUE, buffering |-> FALSE]

\* ---- handlers: the state each one leaves ---------------------------------
handlePlayPause(st) ==
  [st EXCEPT !.playing = ~st.playing, !.showControls = TRUE]

handleVolumeChange_KeepMuted(st, newVolume) == [st EXCEPT !.volume = newVolume]

handleVolumeChange(st, newVolume) ==
  [st EXCEPT !.volume = newVolume,
             !.muted = IF newVolume = 0 THEN TRUE
                       ELSE IF st.muted THEN FALSE ELSE st.muted]

handleMuteToggle(st) ==
  [st EXCEPT !.muted = ~st.muted, !.showControls = TRUE]

\* seekTime = seekTo * state.duration, in hundredths of a second.
seekTime(seekTo, duration) == seekTo * duration

\* The command handleSeek forwards: playerRef.current.seekTo(seekTime, 'seconds')
\* when the player is there and the duration is known.
handleSeekForward(st, seekTo) ==
  IF st.duration > 0
  THEN [cmd |-> "seekTo", time |-> seekTime(seekTo, st.duration)]
  ELSE NoCommand

handleSeek(st, seekTo) == [st EXCEPT !.played = seekTo]

handlePlaybackRateChange(st, newRate) == [st EXCEPT !.playbackRate = newRate]

handleVideoClick(st) ==
  [st EXCEPT !.playing = ~st.playing, !.showControls = TRUE]

handleProgress(st, ps) ==
  [st EXCEPT
     !.played = ps.played,
     !.duration = IF ps.duration > 0 THEN ps.duration ELSE st.duration,
     !.buffering = IF ps.loaded > 0 /\ ps.played < 100
                   THEN ps.loaded - ps.played < 10
                   ELSE st.buffering]

handleError(st) ==
  [st EXCEPT !.error = "Failed to load video", !.loading = FALSE,
             !.buffering = FALSE]

handleLoad_AlwaysAdopt(st, dataDuration) ==
  [st EXCEPT !.error = "null", !.loading = FALSE, !.buffering = FALSE,
             !.showControls = TRUE, !.duration = dataDuration]

\* data.duration is 0 when the ready signal carries none.
handleLoad(st, dataDuration) ==
  [st EXCEPT !.error = "null", !.loading = FALSE, !.buffering = FALSE,
             !.showControls = TRUE,
             !.duration = IF dataDuration # 0 THEN dataDuration ELSE st.duration]

\* ---- the controls-hide timers --------------------------------------------
\* hideTimers holds the remaining ticks of every pending hide timer, oldest
\* first; controlsTimeoutRef is the position of the timer the ref names, 0 when
\* the ref is null or names a timer that is no longer pending.
RemoveAt(seq, i) == [j \in 1..(Len(seq) - 1) |-> IF j < i THEN seq[j] ELSE seq[j + 1]]

\* if (controlsTimeoutRef.current) clearTimeout(controlsTimeoutRef.current)
clearTimeoutRef(timers, ref) == IF ref # 0 THEN RemoveAt(timers, ref) ELSE timers

\* handleVideoClick: clear the timer the ref names, then arm a new one.
clickTimers(timers, ref) == Append(clearTimeoutRef(timers, ref), HideDelay)

\* handleLoad: arm a new one; the timer the ref names is left pending.
loadTimers(timers, ref) == Append(timers, HideDelay)

\* ---- the duration-polling effect (deps [state.loading, actions]) ----------
\* playerRef.current is set while ReactPlayer is rendered: no error view.
playerRefSet(st) == st.error = "null"

\* `actions` is a new object on every render, so every render cleans the
\* effect up and runs it again.
pollingEffect(st) ==
  IF ~st.loading /\ playerRefSet(st)
  THEN [interval |-> PollEvery, timeout |-> PollGiveUp]
  ELSE [interval |-> NoTimer, timeout |-> NoTimer]

NativeRendered == adapter = "native" /\ mounted /\ playerRefSet(state)

\* A state update of the hook and the render that follows it.
NativeCommit(newState, command) ==
  /\ state' = newState
  /\ pollInterval' = pollingEffect(newState).interval
  /\ pollTimeout' = pollingEffect(newState).timeout
  /\ fresh' = FALSE
  /\ forwarded' = command
  /\ UNCHANGED <<adapter, mounted, vimeoVars, apiVars, hookVars>>

KeepTimers == UNCHANGED <<hideTimers, controlsTimeoutRef>>

NativeHandlePlayPause ==
  /\ NativeRendered /\ state.showControls
  /\ NativeCommit(handlePlayPause(state), NoCommand)
  /\ KeepTimers /\ UNCHANGED enginePlaying

\* The volume slider calls handleVolumeChange([v]).
NativeHandleVolumeChangeTo(v) ==
  /\ NativeRendered /\ state.showControls
  /\ NativeCommit(handleVolumeChange(state, v), NoCommand)
  /\ KeepTimers /\ UNCHANGED enginePlaying

NativeHandleVolumeChange ==
  \E v \in VolumeInputs : NativeHandleVolumeChangeTo(v)

NativeHandleMuteToggle ==
  /\ NativeRendered /\ state.showControls
  /\ NativeCommit(handleMuteToggle(state), NoCommand)
  /\ KeepTimers /\ UNCHANGED enginePlaying

NativeHandleSeek ==
  /\ NativeRendered /\ state.showControls
  /\ \E f \in SeekFractions :
       NativeCommit(handleSeek(state, f), handleSeekForward(state, f))
  /\ KeepTimers /\ UNCHANGED enginePlaying

NativeHandlePlaybackRateChange ==
  /\ NativeRendered /\ state.showControls
  /\ \E r \in RateInputs :
       NativeCommit(handlePlaybackRateChange(state, r), NoCommand)
  /\ KeepTimers /\ UNCHANGED enginePlaying

\* onClick and onMouseMove of the container both call handleVideoClick.
NativeHandleVideoClick ==
  /\ NativeRendered
  /\ Len(clearTimeoutRef(hideTimers, controlsTimeoutRef)) < MaxTimers
  /\ NativeCommit(handleVideoClick(state), NoCommand)
  /\ hideTimers' = clickTimers(hideTimers, controlsTimeoutRef)
  /\ controlsTimeoutRef' = Len(hideTimers')
  /\ UNCHANGED enginePlaying

NativeClick == NativeHandleVideoClick

NativeMouseMove == NativeHandleVideoClick

\* ReactPlayer onProgress({played, loaded, duration}).
NativeOnProgressWith(p, l, d) ==
  /\ NativeRendered
  /\ NativeCommit(handleProgress(state, [played |-> p, loaded |-> l,
                                        duration |-> d]),
                  NoCommand)
  /\ KeepTimers /\ UNCHANGED enginePlaying

NativeOnProgress ==
  \E p \in ProgressPlayed, l \in ProgressLoaded, d \in {0} \cup Durations :
    NativeOnProgressWith(p, l, d)

\* ReactPlayer onError.
NativeOnError ==
  /\ NativeRendered
  /\ NativeCommit(handleError(state), NoCommand)
  /\ KeepTimers /\ UNCHANGED enginePlaying

\* onReady and onLoad of ReactPlayer are both wired to handleLoad.
NativeHandleLoadWith(dataDuration) ==
  /\ NativeRendered
  /\ Len(hideTimers) < MaxTimers
  /\ NativeCommit(handleLoad(state, dataDuration), NoCommand)
  /\ hideTimers' = loadTimers(hideTimers, controlsTimeoutRef)
  /\ controlsTimeoutRef' = Len(hideTimers')
  /\ UNCHANGED enginePlaying

NativeHandleLoad == \E d \in {0} \cup Durations : NativeHandleLoadWith(d)

NativeOnReady == NativeHandleLoad

NativeOnLoad == NativeHandleLoad

\* ReactPlayer follows its `playing` prop; onPlay and onPause both call
\* handlePlayPause.
NativeOnPlay ==
  /\ NativeRendered /\ ~state.loading
  /\ state.playing /\ ~enginePlaying
  /\ enginePlaying' = TRUE
  /\ NativeCommit(handlePlayPause(state), NoCommand)
  /\ KeepTimers

NativeOnPause ==
  /\ NativeRendered /\ ~state.loading
  /\ ~state.playing /\ enginePlaying
  /\ enginePlaying' = FALSE
  /\ NativeCommit(handlePlayPause(state), NoCommand)
  /\ KeepTimers

\* A render of VideoPlayer caused by its parent: the polling effect runs again.
NativeRerender ==
  /\ adapter = "native" /\ mounted
  /\ pollInterval' = pollingEffect(state).interval
  /\ pollTimeout' = pollingEffect(state).timeout
  /\ KeepTimers
  /\ UNCHANGED <<adapter, mounted, state, enginePlaying, forwarded, fresh,
                 vimeoVars, apiVars, hookVars>>

\* The interval callback: read the duration of the underlying video element.
NativePollInterval ==
  /\ adapter = "native" /\ mounted /\ pollInterval = 0
  /\ \E d \in {0} \cup Durations :
       IF playerRefSet(state) /\ d > 0
       THEN NativeCommit([state EXCEPT !.duration = d], NoCommand)
       ELSE /\ pollInterval' = PollEvery
            /\ UNCHANGED <<adapter, mounted, state, pollTimeout, forwarded,
                           fresh, vimeoVars, apiVars, hookVars>>
  /\ KeepTimers /\ UNCHANGED enginePlaying

\* The 10 s timeout callback: clearInterval(interval).
NativePollTimeout ==
  /\ adapter = "native" /\ mounted /\ pollTimeout = 0
  /\ pollInterval' = NoTimer
  /\ pollTimeout' = NoTimer
  /\ KeepTimers
  /\ UNCHANGED <<adapter, mounted, state, enginePlaying, forwarded, fresh,
                 vimeoVars, apiVars, hookVars>>

\* The Retry button of the error view: window.location.reload().
NativeRetry ==
  /\ adapter = "native" /\ mounted /\ state.error # "null"
  /\ state' = nativeInitialState
  /\ hideTimers' = <<>>
  /\ controlsTimeoutRef' = 0
  /\ pollInterval' = NoTimer
  /\ pollTimeout' = NoTimer
  /\ enginePlaying' = FALSE
  /\ forwarded' = NoCommand
  /\ fresh' = TRUE
  /\ UNCHANGED <<adapter, mounted, vimeoVars, apiVars, hookVars>>

\* ---- keyboard controls (keydown effect of useVideoPlayer) ------------------
\* Seconds playerRef.current.getCurrentTime() / player.getCurrentTime() report.
KeyTimes == {5, 55}

arrowRightTarget_NoClamp(currentTime, duration) == currentTime + 10

\* Math.min(currentTime + 10, duration)
arrowRightTarget(currentTime, duration) ==
  IF currentTime + 10 < duration THEN currentTime + 10 ELSE duration

\* Math.max(currentTime - 10, 0)
arrowLeftTarget(currentTime) ==
  IF currentTime - 10 > 0 THEN currentTime - 10 ELSE 0

\* playerRef.current.seekTo(newTime / state.duration): time holds newTime, the
\* numerator of the fraction whose denominator is state.duration.
keySeekTo(newTime) == [cmd |-> "seekToFraction", time |-> newTime]

\* A handler that forwards a command and sets no state: nothing renders.
NativeForward(command) ==
  /\ forwarded' = command
  /\ fresh' = FALSE
  /\ KeepTimers
  /\ UNCHANGED <<adapter, mounted, state, pollVars, enginePlaying, vimeoVars,
                 apiVars, hookVars>>

\* ' ' calls handlers.handlePlayPause().
NativeKeySpace ==
  /\ adapter = "native" /\ mounted
  /\ NativeCommit(handlePlayPause(state), NoCommand)
  /\ KeepTimers /\ UNCHANGED enginePlaying

NativeKeyArrowRightAt(currentTime) ==
  /\ NativeRendered /\ state.duration > 0
  /\ NativeForward(keySeekTo(arrowRightTarget(currentTime, state.duration)))

NativeKeyArrowRight == \E t \in KeyTimes : NativeKeyArrowRightAt(t)

NativeKeyArrowLeftAt(currentTime) ==
  /\ NativeRendered /\ state.duration > 0
  /\ NativeForward(keySeekTo(arrowLeftTarget(currentTime)))

NativeKeyArrowLeft == \E t \in KeyTimes : NativeKeyArrowLeftAt(t)

(***************************************************************************)
(* Vimeo adapter (src/src/components/VimeoPlayer.tsx)                      *)
(***************************************************************************)

MaxScripts == 1
MaxListeners == 2

vimeoInitialState_Paused ==
  [playing |-> FALSE, volume |-> 80, muted |-> TRUE, showControls |-> TRUE,
   error |-> "null", playbackRate |-> 100, loading |-> TRUE, duration |-> 0,
   played |-> 0]

\* The useState initial values of VimeoPlayer.
vimeoInitialState ==
  [playing |-> TRUE, volume |-> 80, muted |-> TRUE, showControls |-> TRUE,
   error |-> "null", playbackRate |-> 100, loading |-> TRUE, duration |-> 0,
   played |-> 0]

\* player is "null" before the controller is constructed, "bound" while it is
\* bound to the rendered iframe, and "stale" once that iframe has been removed
\* (the error view replaces it) while the state still holds the controller.
vimeoHandlePlayPause(st, pl) ==
  IF pl # "null" THEN [st EXCEPT !.showControls = TRUE] ELSE st

vimeoPlayPauseCommand(st, pl) ==
  IF pl # "null"
  THEN [cmd |-> IF st.playing THEN "pause" ELSE "play", time |-> 0]
  ELSE NoCommand

vimeoHandleVolumeChange(st, newVolume) ==
  [st EXCEPT !.volume = newVolume,
             !.muted = IF newVolume = 0 THEN TRUE
                       ELSE IF st.muted THEN FALSE ELSE st.muted]

vimeoHandleMuteToggle(st, pl) ==
  IF pl # "null"
  THEN [st EXCEPT !.muted = ~st.muted, !.showControls = TRUE]
  ELSE st

vimeoHandleSeek(st, seekTo) == [st EXCEPT !.played = seekTo]

\* player.setCurrentTime(seekTo * duration), whatever the duration is.
vimeoHandleSeekForward(st, pl, seekTo) ==
  IF pl # "null"
  THEN [cmd |-> "setCurrentTime", time |-> seekTo * st.duration]
  ELSE NoCommand

vimeoHandlePlaybackRateChange(st, newRate) ==
  [st EXCEPT !.playbackRate = newRate]

vimeoHandleVideoClick(st, pl) ==
  [vimeoHandlePlayPause(st, pl) EXCEPT !.showControls = TRUE]

\* The listeners registered in script.onload.
vimeoOnLoaded(st) == [st EXCEPT !.loading = FALSE, !.showControls = TRUE]

vimeoOnPlay(st) == [st EXCEPT !.playing = TRUE, !.showControls = TRUE]

vimeoOnPause(st) == [st EXCEPT !.playing = FALSE, !.showControls = TRUE]

vimeoOnTimeupdate(st, percent) ==
  IF percent # 0 THEN [st EXCEPT !.played = percent] ELSE st

vimeoOnError(st, message) == [st EXCEPT !.error = message, !.loading = FALSE]

vimeoOnDuration(st, d) == IF d > 0 THEN [st EXCEPT !.duration = d] ELSE st

\* The keydown effect (deps [player]) installs a handler that closes over the
\* handlePlayPause of the render it runs in, and so over that render's
\* `playing`.
keydownEffect(st) == st.playing

\* The Retry button of the error view: setError(null).
vimeoRetry(st) == [st EXCEPT !.error = "null"]

\* The iframe is rendered unless the error view is.
VimeoRendered == adapter = "vimeo" /\ mounted /\ state.error = "null"

\* The custom controls overlay: {showControls && !loading && ...}.
VimeoControls == VimeoRendered /\ state.showControls /\ ~state.loading

\* Showing the error view removes the iframe the controller is bound to.
unbind(pl, st) == IF pl = "bound" /\ st.error # "null" THEN "stale" ELSE pl

VimeoCommit(newState, command) ==
  /\ state' = newState
  /\ fresh' = FALSE
  /\ forwarded' = command
  /\ UNCHANGED <<adapter, mounted, pollVars, enginePlaying, apiVars, hookVars>>

KeepVimeo == UNCHANGED vimeoVars

\* script.onload of an injected script element.
VimeoScriptOnload ==
  /\ adapter = "vimeo" /\ scriptPending > 0
  /\ scriptPending' = scriptPending - 1
  /\ IF VimeoRendered
     THEN /\ (player = "bound" => listeners < MaxListeners)
          /\ durationPending < MaxScripts
          /\ player' = "bound"
          /\ listeners' = IF player = "bound" THEN listeners + 1 ELSE 1
          /\ durationPending' = durationPending + 1
          /\ keyHandlerPlaying' = keydownEffect(state)
          /\ VimeoCommit(state, [cmd |-> "setVolume", time |-> 0])
     ELSE /\ UNCHANGED <<player, listeners, durationPending,
                         keyHandlerPlaying>>
          /\ VimeoCommit(state, NoCommand)
  /\ KeepTimers /\ UNCHANGED scriptTags

\* script.onerror of an injected script element.
VimeoScriptOnerror ==
  /\ adapter = "vimeo" /\ scriptPending > 0
  /\ scriptPending' = scriptPending - 1
  /\ LET new == IF mounted
                THEN vimeoOnError(state, "Failed to load Vimeo player")
                ELSE state IN
     /\ VimeoCommit(new, NoCommand)
     /\ player' = unbind(player, new)
  /\ listeners' = IF player' = "bound" THEN listeners ELSE 0
  /\ KeepTimers
  /\ UNCHANGED <<scriptTags, durationPending, keyHandlerPlaying>>

\* The 'loaded' event: every registered listener runs and arms a hide timer.
VimeoLoaded ==
  /\ VimeoRendered /\ player = "bound"
  /\ Len(hideTimers) + listeners <= MaxTimers
  /\ VimeoCommit(vimeoOnLoaded(state), [cmd |-> "setVolume", time |-> 0])
  /\ hideTimers' = hideTimers \o [i \in 1..listeners |-> HideDelay]
  /\ controlsTimeoutRef' = Len(hideTimers')
  /\ KeepVimeo

VimeoPlayEvent ==
  /\ VimeoRendered /\ player = "bound"
  /\ VimeoCommit(vimeoOnPlay(state), NoCommand)
  /\ KeepTimers /\ KeepVimeo

VimeoPauseEvent ==
  /\ VimeoRendered /\ player = "bound"
  /\ VimeoCommit(vimeoOnPause(state), NoCommand)
  /\ KeepTimers /\ KeepVimeo

VimeoTimeupdate ==
  /\ VimeoRendered /\ player = "bound"
  /\ \E percent \in {0} \cup ProgressPlayed :
       VimeoCommit(vimeoOnTimeupdate(state, percent), NoCommand)
  /\ KeepTimers /\ KeepVimeo

VimeoErrorEvent ==
  /\ VimeoRendered /\ player = "bound"
  /\ VimeoCommit(vimeoOnError(state, "Failed to load Vimeo video"), NoCommand)
  /\ player' = "stale"
  /\ listeners' = 0
  /\ KeepTimers
  /\ UNCHANGED <<scriptTags, scriptPending, durationPending,
                 keyHandlerPlaying>>

\* vimeoPlayer.getDuration() resolves.
VimeoDurationResolved ==
  /\ adapter = "vimeo" /\ durationPending > 0
  /\ durationPending' = durationPending - 1
  /\ \E d \in {0} \cup Durations :
       VimeoCommit(IF mounted THEN vimeoOnDuration(state, d) ELSE state,
                   NoCommand)
  /\ KeepTimers
  /\ UNCHANGED <<player, listeners, scriptTags, scriptPending,
                 keyHandlerPlaying>>

VimeoHandlePlayPause ==
  /\ VimeoControls
  /\ VimeoCommit(vimeoHandlePlayPause(state, player),
                 vimeoPlayPauseCommand(state, player))
  /\ KeepTimers /\ KeepVimeo

\* setVolume(newVolume) changes the dependency of the script effect: its
\* cleanup removes the script it injected and the effect injects another.
VimeoHandleVolumeChangeTo(v) ==
  /\ VimeoControls
  /\ VimeoCommit(vimeoHandleVolumeChange(state, v),
                 IF player # "null"
                 THEN [cmd |-> "setVolume", time |-> 0] ELSE NoCommand)
  /\ IF v # state.volume
     THEN /\ scriptPending < MaxScripts
          /\ scriptPending' = scriptPending + 1
          /\ scriptTags' = (scriptTags - 1) + 1
     ELSE UNCHANGED <<scriptPending, scriptTags>>
  /\ KeepTimers
  /\ UNCHANGED <<player, listeners, durationPending, keyHandlerPlaying>>

VimeoHandleVolumeChange ==
  \E v \in VolumeInputs : VimeoHandleVolumeChangeTo(v)

VimeoHandleMuteToggle ==
  /\ VimeoControls
  /\ VimeoCommit(vimeoHandleMuteToggle(state, player),
                 IF player # "null"
                 THEN [cmd |-> "setVolume", time |-> 0] ELSE NoCommand)
  /\ KeepTimers /\ KeepVimeo

VimeoHandleSeek ==
  /\ VimeoControls
  /\ \E f \in SeekFractions :
       VimeoCommit(vimeoHandleSeek(state, f),
                   vimeoHandleSeekForward(state, player, f))
  /\ KeepTimers /\ KeepVimeo

VimeoHandlePlaybackRateChange ==
  /\ VimeoControls
  /\ \E r \in RateInputs :
       VimeoCommit(vimeoHandlePlaybackRateChange(state, r),
                   IF player # "null"
                   THEN [cmd |-> "setPlaybackRate", time |-> 0] ELSE NoCommand)
  /\ KeepTimers /\ KeepVimeo

VimeoHandleVideoClick ==
  /\ VimeoRendered
  /\ Len(clearTimeoutRef(hideTimers, controlsTimeoutRef)) < MaxTimers
  /\ VimeoCommit(vimeoHandleVideoClick(state, player),
                 vimeoPlayPauseCommand(state, player))
  /\ hideTimers' = clickTimers(hideTimers, controlsTimeoutRef)
  /\ controlsTimeoutRef' = Len(hideTimers')
  /\ KeepVimeo

VimeoMouseMove ==
  /\ VimeoRendered
  /\ VimeoCommit([state EXCEPT !.showControls = TRUE], NoCommand)
  /\ KeepTimers /\ KeepVimeo

VimeoMouseLeave ==
  /\ VimeoRendered
  /\ VimeoCommit([state EXCEPT !.showControls = FALSE], NoCommand)
  /\ KeepTimers /\ KeepVimeo

VimeoRetry ==
  /\ adapter = "vimeo" /\ mounted /\ state.error # "null"
  /\ VimeoCommit(vimeoRetry(state), NoCommand)
  /\ KeepTimers /\ KeepVimeo

\* ---- keyboard shortcuts of VimeoPlayer --------------------------------------
\* player.setCurrentTime(seconds), in hundredths of a second.
vimeoSetCurrentTime(seconds) ==
  [cmd |-> "setCurrentTime", time |-> 100 * seconds]

VimeoForward(command) ==
  /\ forwarded' = command
  /\ fresh' = FALSE
  /\ KeepTimers /\ KeepVimeo
  /\ UNCHANGED <<adapter, mounted, state, pollVars, enginePlaying, apiVars,
                 hookVars>>

\* ' ' calls the handlePlayPause the installed handler closed over.
VimeoKeySpace ==
  /\ adapter = "vimeo" /\ mounted /\ player # "null"
  /\ LET closure == [state EXCEPT !.playing = keyHandlerPlaying] IN
       VimeoCommit(vimeoHandlePlayPause(state, player),
                   vimeoPlayPauseCommand(closure, player))
  /\ KeepTimers /\ KeepVimeo

\* ArrowRight: getCurrentTime() resolves with currentTime, getDuration() with
\* duration, then setCurrentTime is called.
VimeoKeyArrowRightWith(currentTime, duration) ==
  /\ adapter = "vimeo" /\ mounted /\ player = "bound"
  /\ VimeoForward(vimeoSetCurrentTime(arrowRightTarget(currentTime, duration)))

VimeoKeyArrowRight ==
  \E t \in KeyTimes, d \in {0} \cup Durations : VimeoKeyArrowRightWith(t, d)

VimeoKeyArrowLeftAt(currentTime) ==
  /\ adapter = "vimeo" /\ mounted /\ player = "bound"
  /\ VimeoForward(vimeoSetCurrentTime(arrowLeftTarget(currentTime)))

VimeoKeyArrowLeft == \E t \in KeyTimes : VimeoKeyArrowLeftAt(t)

\* ---- the keydown listeners on document -------------------------------------
Keys == {" ", "ArrowRight", "ArrowLeft", "f"}

\* e.target of the keydown: document.body, an element inside an element of
\* class video-player-container, or an element outside it (the comment
\* textarea of the page).
KeyTargets == {"body", "container", "outside"}

\* useVideoPlayer returns early when
\* e.target !== document.body && !target?.closest('.video-player-container').
nativeKeyAccepted(target) == target = "body" \/ target = "container"

\* handleKeyPress of VimeoPlayer does not look at e.target.
vimeoKeyAccepted(target) == TRUE

\* e.preventDefault() is the first statement of every key branch.
nativePreventsDefault(key, target) == nativeKeyAccepted(target) /\ key \in Keys

vimeoPreventsDefault(key, target) == vimeoKeyAccepted(target) /\ key \in Keys

toggleFullscreen == [cmd |-> "requestFullscreen", time |-> 0]

\* 'f' / 'F': handlers.handleFullscreenToggle() on the container element.
NativeKeyFullscreen ==
  /\ NativeRendered
  /\ NativeForward(toggleFullscreen)

\* 'f' / 'F': handleFullscreenToggle() calls player.requestFullscreen().
VimeoKeyFullscreen ==
  /\ adapter = "vimeo" /\ mounted /\ player # "null"
  /\ VimeoForward(toggleFullscreen)

NativeKeydown(key, target) ==
  /\ adapter = "native" /\ mounted
  /\ IF nativeKeyAccepted(target)
     THEN \/ key = " " /\ NativeKeySpace
          \/ key = "ArrowRight" /\ NativeKeyArrowRight
          \/ key = "ArrowLeft" /\ NativeKeyArrowLeft
          \/ key = "f" /\ NativeKeyFullscreen
     ELSE UNCHANGED <<apiVars, hookVars, playerVars>>

NativeKeydownEvent ==
  \E key \in Keys, target \in KeyTargets : NativeKeydown(key, target)

VimeoKeydown(key, target) ==
  /\ adapter = "vimeo" /\ mounted
  /\ IF vimeoKeyAccepted(target)
     THEN \/ key = " " /\ VimeoKeySpace
          \/ key = "ArrowRight" /\ VimeoKeyArrowRight
          \/ key = "ArrowLeft" /\ VimeoKeyArrowLeft
          \/ key = "f" /\ VimeoKeyFullscreen
     ELSE UNCHANGED <<apiVars, hookVars, playerVars>>

VimeoKeydownEvent ==
  \E key \in Keys, target \in KeyTargets : VimeoKeydown(key, target)

\* ---- engine calls that throw synchronously --------------------------------
\* What each handler has done to the state when the engine call it makes
\* throws: the updates queued before the call are applied, those after it
\* are never reached.  handleSeek of both adapters calls setPlayed first and
\* wraps the engine call in try/catch; the other VimeoPlayer handlers call
\* the controller outside any try, so the exception leaves the handler.
handleSeekThrown(st, seekTo) == [st EXCEPT !.played = seekTo]

vimeoHandleSeekThrown(st, seekTo) == [st EXCEPT !.played = seekTo]

\* player.pause() / player.play() comes before setShowControls(true).
vimeoHandlePlayPauseThrown(st) == st

\* setVolume(newVolume), then player.setVolume(newVolume) throws before the
\* mute rule.
vimeoHandleVolumeChangeThrown(st, newVolume) == [st EXCEPT !.volume = newVolume]

\* player.setVolume(...) comes before setMuted and setShowControls.
vimeoHandleMuteToggleThrown(st) == st

\* setPlaybackRate(newRate), then player.setPlaybackRate(newRate) throws.
vimeoHandlePlaybackRateChangeThrown(st, newRate) ==
  [st EXCEPT !.playbackRate = newRate]

NativeHandleSeekThrows(f) ==
  /\ NativeRendered /\ state.showControls
  /\ handleSeekForward(state, f) # NoCommand
  /\ NativeCommit(handleSeekThrown(state, f), handleSeekForward(state, f))
  /\ KeepTimers /\ UNCHANGED enginePlaying

NativeHandleSeekThrowing == \E f \in SeekFractions : NativeHandleSeekThrows(f)

VimeoHandleSeekThrows(f) ==
  /\ VimeoControls /\ player # "null"
  /\ VimeoCommit(vimeoHandleSeekThrown(state, f),
                 vimeoHandleSeekForward(state, player, f))
  /\ KeepTimers /\ KeepVimeo

VimeoHandleSeekThrowing == \E f \in SeekFractions : VimeoHandleSeekThrows(f)

VimeoHandlePlayPauseThrows ==
  /\ VimeoControls /\ player # "null"
  /\ VimeoCommit(vimeoHandlePlayPauseThrown(state),
                 vimeoPlayPauseCommand(state, player))
  /\ KeepTimers /\ KeepVimeo

VimeoHandleVolumeChangeThrows(v) ==
  /\ VimeoControls /\ player # "null"
  /\ VimeoCommit(vimeoHandleVolumeChangeThrown(state, v),
                 [cmd |-> "setVolume", time |-> 0])
  /\ IF v # state.volume
     THEN /\ scriptPending < MaxScripts
          /\ scriptPending' = scriptPending + 1
          /\ scriptTags' = (scriptTags - 1) + 1
     ELSE UNCHANGED <<scriptPending, scriptTags>>
  /\ KeepTimers
  /\ UNCHANGED <<player, listeners, durationPending, keyHandlerPlaying>>

VimeoHandleVolumeChangeThrowing ==
  \E v \in VolumeInputs : VimeoHandleVolumeChangeThrows(v)

VimeoHandleMuteToggleThrows ==
  /\ VimeoControls /\ player # "null"
  /\ VimeoCommit(vimeoHandleMuteToggleThrown(state),
                 [cmd |-> "setVolume", time |-> 0])
  /\ KeepTimers /\ KeepVimeo

VimeoHandlePlaybackRateChangeThrows(r) ==
  /\ VimeoControls /\ player # "null"
  /\ VimeoCommit(vimeoHandlePlaybackRateChangeThrown(state, r),
                 [cmd |-> "setPlaybackRate", time |-> 0])
  /\ KeepTimers /\ KeepVimeo

VimeoHandlePlaybackRateChangeThrowing ==
  \E r \in RateInputs : VimeoHandlePlaybackRateChangeThrows(r)

(***************************************************************************)
(* YouTube adapter (src/src/components/YouTubePlayer.tsx)                  *)
(***************************************************************************)

youtubeInitialState == [error |-> "null"]

youtubeHandleError(st) == [st EXCEPT !.error = "Failed to load YouTube video"]

youtubeHandleLoad(st) == [st EXCEPT !.error = "null"]

\* handleRetry: setError(null); playerRef.current is null in the error view, so
\* no src is forced, and the next render creates the iframe anew.
youtubeHandleRetry(st) == [st EXCEPT !.error = "null"]

YouTubeRendered == adapter = "youtube" /\ mounted /\ state.error = "null"

YouTubeCommit(newState) ==
  /\ state' = newState
  /\ fresh' = FALSE
  /\ KeepTimers /\ KeepVimeo
  /\ UNCHANGED <<adapter, mounted, pollVars, enginePlaying, forwarded,
                 apiVars, hookVars>>

YouTubeOnLoad == YouTubeRendered /\ YouTubeCommit(youtubeHandleLoad(state))

YouTubeOnError ==
  YouTubeRendered /\ YouTubeCommit(youtubeHandleError(state))

YouTubeRetry ==
  /\ adapter = "youtube" /\ mounted /\ state.error # "null"
  /\ YouTubeCommit(youtubeHandleRetry(state))

(***************************************************************************)
(* Timers, time and unmount                                                *)
(***************************************************************************)

\* The oldest pending hide timer is due: setShowControls(false).
hideTimerStep(timers) == Tail(timers)

refAfterFire(ref) == IF ref > 0 THEN ref - 1 ELSE 0

NativeHideTimerFire ==
  /\ adapter = "native" /\ hideTimers # <<>> /\ hideTimers[1] = 0
  /\ hideTimers' = hideTimerStep(hideTimers)
  /\ controlsTimeoutRef' = refAfterFire(controlsTimeoutRef)
  /\ IF mounted
     THEN NativeCommit([state EXCEPT !.showControls = FALSE], NoCommand)
     ELSE /\ fresh' = FALSE
          /\ UNCHANGED <<adapter, mounted, state, pollVars, forwarded,
                         vimeoVars, apiVars, hookVars>>
  /\ UNCHANGED enginePlaying

VimeoHideTimerFire ==
  /\ adapter = "vimeo" /\ hideTimers # <<>> /\ hideTimers[1] = 0
  /\ hideTimers' = hideTimerStep(hideTimers)
  /\ controlsTimeoutRef' = refAfterFire(controlsTimeoutRef)
  /\ VimeoCommit(IF mounted THEN [state EXCEPT !.showControls = FALSE]
                 ELSE state,
                 NoCommand)
  /\ KeepVimeo

Dec(t) == IF t = NoTimer THEN NoTimer ELSE t - 1

\* 1000 ms pass: no pending timer is due, and every pending timer is a tick
\* nearer.
Tick ==
  /\ hideTimers # <<>> \/ pollInterval # NoTimer \/ pollTimeout # NoTimer
  /\ \A i \in 1..Len(hideTimers) : hideTimers[i] > 0
  /\ pollInterval # 0 /\ pollTimeout # 0
  /\ hideTimers' = [i \in 1..Len(hideTimers) |-> hideTimers[i] - 1]
  /\ pollInterval' = Dec(pollInterval)
  /\ pollTimeout' = Dec(pollTimeout)
  /\ UNCHANGED <<adapter, mounted, state, controlsTimeoutRef, enginePlaying,
                 forwarded, fresh, vimeoVars, apiVars, hookVars>>

\* Unmount of VideoPlayer: the cleanups of useVideoPlayer's effects.
NativeUnmount ==
  /\ adapter = "native" /\ mounted
  /\ mounted' = FALSE
  /\ hideTimers' = clearTimeoutRef(hideTimers, controlsTimeoutRef)
  /\ controlsTimeoutRef' = 0
  /\ pollInterval' = NoTimer
  /\ pollTimeout' = NoTimer
  /\ fresh' = FALSE
  /\ forwarded' = NoCommand
  /\ UNCHANGED <<adapter, state, enginePlaying, vimeoVars, apiVars, hookVars>>

\* Unmount of VimeoPlayer: the cleanup of the script effect removes the script
\* it injected and the cleanup of the keydown effect removes the key handler;
\* no cleanup touches controlsTimeoutRef.
VimeoUnmount ==
  /\ adapter = "vimeo" /\ mounted
  /\ mounted' = FALSE
  /\ scriptTags' = scriptTags - 1
  /\ keyHandlerPlaying' = FALSE
  /\ fresh' = FALSE
  /\ forwarded' = NoCommand
  /\ KeepTimers
  /\ UNCHANGED <<adapter, state, pollVars, enginePlaying, player, listeners,
                 scriptPending, durationPending, apiVars, hookVars>>

YouTubeUnmount ==
  /\ adapter = "youtube" /\ mounted
  /\ mounted' = FALSE
  /\ fresh' = FALSE
  /\ KeepTimers /\ KeepVimeo
  /\ UNCHANGED <<adapter, state, pollVars, enginePlaying, forwarded, apiVars,
                 hookVars>>

Adapters == {"native", "vimeo", "youtube"}

initialState(a) ==
  CASE a = "native" -> nativeInitialState
    [] a = "vimeo" -> vimeoInitialState
    [] OTHER -> youtubeInitialState

\* The player right after its mount: state at its initial value, no timer
\* armed, and (Vimeo) the control script injected by the mount effect.
PlayerInit ==
  /\ adapter \in Adapters
  /\ mounted = TRUE
  /\ state = initialState(adapter)
  /\ hideTimers = <<>>
  /\ controlsTimeoutRef = 0
  /\ pollInterval = NoTimer
  /\ pollTimeout = NoTimer
  /\ enginePlaying = FALSE
  /\ forwarded = NoCommand
  /\ fresh = TRUE
  /\ player = "null"
  /\ listeners = 0
  /\ scriptTags = IF adapter = "vimeo" THEN 1 ELSE 0
  /\ scriptPending = IF adapter = "vimeo" THEN 1 ELSE 0
  /\ durationPending = 0
  /\ keyHandlerPlaying = IF adapter = "vimeo"
                         THEN keydownEffect(vimeoInitialState) ELSE FALSE

PlayerIdle ==
  /\ adapter = "none"
  /\ mounted = FALSE
  /\ state = youtubeInitialState
  /\ hideTimers = <<>>
  /\ controlsTimeoutRef = 0
  /\ pollInterval = NoTimer
  /\ pollTimeout = NoTimer
  /\ enginePlaying = FALSE
  /\ forwarded = NoCommand
  /\ fresh = FALSE
  /\ player = "null"
  /\ listeners = 0
  /\ scriptTags = 0
  /\ scriptPending = 0
  /\ durationPending = 0
  /\ keyHandlerPlaying = FALSE

PlayerNext ==
  \/ NativeHandlePlayPause
  \/ NativeHandleVolumeChange
  \/ NativeHandleMuteToggle
  \/ NativeHandleSeek
  \/ NativeHandlePlaybackRateChange
  \/ NativeClick
  \/ NativeMouseMove
  \/ NativeOnProgress
  \/ NativeOnError
  \/ NativeOnReady
  \/ NativeOnLoad
  \/ NativeOnPlay
  \/ NativeOnPause
  \/ NativeRerender
  \/ NativePollInterval
  \/ NativePollTimeout
  \/ NativeRetry
  \/ NativeHideTimerFire
  \/ NativeUnmount
  \/ VimeoScriptOnload
  \/ VimeoScriptOnerror
  \/ VimeoLoaded
  \/ VimeoPlayEvent
  \/ VimeoPauseEvent
  \/ VimeoTimeupdate
  \/ VimeoErrorEvent
  \/ VimeoDurationResolved
  \/ VimeoHandlePlayPause
  \/ VimeoHandleVolumeChange
  \/ VimeoHandleMuteToggle
  \/ VimeoHandleSeek
  \/ VimeoHandlePlaybackRateChange
  \/ VimeoHandleVideoClick
  \/ VimeoMouseMove
  \/ VimeoMouseLeave
  \/ VimeoRetry
  \/ VimeoHideTimerFire
  \/ VimeoUnmount
  \/ YouTubeOnLoad
  \/ YouTubeOnError
  \/ YouTubeRetry
  \/ YouTubeUnmount
  \/ Tick

\* The keyboard, with the events that set what its handlers read: the
\* duration, the play state, the error view and the Vimeo controller.
KeysNext ==
  \/ NativeKeydownEvent
  \/ VimeoKeydownEvent
  \/ NativeKeySpace
  \/ NativeKeyArrowRight
  \/ NativeKeyArrowLeft
  \/ NativeOnProgress
  \/ NativeOnReady
  \/ NativeOnError
  \/ NativeOnPlay
  \/ NativeOnPause
  \/ NativeRetry
  \/ NativeUnmount
  \/ VimeoKeySpace
  \/ VimeoKeyArrowRight
  \/ VimeoKeyArrowLeft
  \/ VimeoScriptOnload
  \/ VimeoScriptOnerror
  \/ VimeoPlayEvent
  \/ VimeoPauseEvent
  \/ VimeoErrorEvent
  \/ VimeoDurationResolved
  \/ VimeoHandleVolumeChange
  \/ VimeoLoaded
  \/ VimeoRetry
  \/ VimeoUnmount

\* The handlers with an engine call, with the engine answering or throwing,
\* and the events that bring the player to where a command is forwarded.
ThrowNext ==
  \/ NativeHandleSeekThrowing
  \/ NativeHandleSeek
  \/ NativeOnReady
  \/ NativeOnProgress
  \/ VimeoHandleSeekThrowing
  \/ VimeoHandlePlayPauseThrows
  \/ VimeoHandleVolumeChangeThrowing
  \/ VimeoHandleMuteToggleThrows
  \/ VimeoHandlePlaybackRateChangeThrowing
  \/ VimeoHandleSeek
  \/ VimeoHandleMuteToggle
  \/ VimeoHandleVolumeChange
  \/ VimeoScriptOnload
  \/ VimeoLoaded
  \/ VimeoPlayEvent
  \/ VimeoPauseEvent
  \/ VimeoTimeupdate
  \/ VimeoDurationResolved

(***************************************************************************)
(* Video URL classification: videoUtils (src/unnamed/part_000), the page's *)
(* adapter selection (VideoPlayerPage.tsx) and parseVideoUrl               *)
(* (api-client.ts).  A string is a sequence of one-character strings.      *)
(***************************************************************************)

\* null and undefined, distinct from every string.
Null == <<"null">>
Undefined == <<"undefined">>

Least(S) == CHOOSE x \in S : \A y \in S : x <= y
Greatest(S) == CHOOSE x \in S : \A y \in S : x >= y

\* The literal lit occurs in s at position i.
StartsAt(s, i, lit) ==
  /\ i >= 1 /\ i + Len(lit) - 1 <= Len(s)
  /\ SubSeq(s, i, i + Len(lit) - 1) = lit

\* String.prototype.includes, endsWith, slice(n), toLowerCase.
includes(s, lit) == \E i \in 1..Len(s) : StartsAt(s, i, lit)

endsWith(s, lit) ==
  Len(s) >= Len(lit) /\ StartsAt(s, Len(s) - Len(lit) + 1, lit)

slice(s, n) == SubSeq(s, n + 1, Len(s))

lowerOf(c) ==
  CASE c = "Y" -> "y" [] c = "M" -> "m" [] c = "P" -> "p" [] OTHER -> c

toLowerCase(s) == [i \in 1..Len(s) |-> lowerOf(s[i])]

\* Last position of the longest run, starting at i, of characters outside
\* excl (inside class); i - 1 when the run is empty.
RunEndNot(s, i, excl) ==
  LET stops == {j \in i..Len(s) : s[j] \in excl}
  IN IF stops = {} THEN Len(s) ELSE Least(stops) - 1

RunEndIn(s, i, class) ==
  LET stops == {j \in i..Len(s) : s[j] \notin class}
  IN IF stops = {} THEN Len(s) ELSE Least(stops) - 1

sHttps == <<"h", "t", "t", "p", "s", ":", "/", "/">>

sWatchV ==
  <<"y", "o", "u", "t", "u", "b", "e", ".", "c", "o", "m", "/", "w", "a",
    "t", "c", "h", "?", "v", "=">>

sYoutuBe == <<"y", "o", "u", "t", "u", ".", "b", "e", "/">>

sEmbed ==
  <<"y", "o", "u", "t", "u", "b", "e", ".", "c", "o", "m", "/", "e", "m",
    "b", "e", "d", "/">>

sYoutubeV ==
  <<"y", "o", "u", "t", "u", "b", "e", ".", "c", "o", "m", "/", "v", "/">>

sWatchQ ==
  <<"y", "o", "u", "t", "u", "b", "e", ".", "c", "o", "m", "/", "w", "a",
    "t", "c", "h", "?">>

sVEquals == <<"v", "=">>

sVimeoCom == <<"v", "i", "m", "e", "o", ".", "c", "o", "m", "/">>

sHostYoutube == <<"y", "o", "u", "t", "u", "b", "e", ".", "c", "o", "m">>

sHostYoutuBe == <<"y", "o", "u", "t", "u", ".", "b", "e">>

sHostVimeo == <<"v", "i", "m", "e", "o", ".", "c", "o", "m">>

sPathWatch == <<"/", "w", "a", "t", "c", "h">>

sV == <<"v">>

\* [^&\n?#] and \d of the patterns.
IdStop == {"&", "\n", "?", "#"}

Digits == {"0", "1", "2", "3", "4", "5", "6", "7", "8", "9"}

\* String.prototype.match with a pattern (?:p1|p2|...)([^&\n?#]+): group 1
\* of the leftmost match, or null.
matchPrefixedId(url, prefixes) ==
  LET at(i, pre) == /\ StartsAt(url, i, pre)
                    /\ i + Len(pre) <= Len(url)
                    /\ url[i + Len(pre)] \notin IdStop
      starts == {i \in 1..Len(url) : \E pre \in prefixes : at(i, pre)}
  IN IF starts = {} THEN Null
     ELSE LET i == Least(starts)
              pre == CHOOSE q \in prefixes : at(i, q)
              k == i + Len(pre)
          IN SubSeq(url, k, RunEndNot(url, k, IdStop))

\* /youtube\.com\/watch\?.*v=([^&\n?#]+)/: the greedy .* stays on one line and
\* gives back until the last "v=" that an id character follows.
matchWatchAnyV(url) ==
  LET q(i) == i + Len(sWatchQ)
      ks(i) == {k \in q(i)..RunEndNot(url, q(i), {"\n"}) :
                  /\ StartsAt(url, k, sVEquals)
                  /\ k + 2 <= Len(url)
                  /\ url[k + 2] \notin IdStop}
      starts == {i \in 1..Len(url) : StartsAt(url, i, sWatchQ) /\ ks(i) # {}}
  IN IF starts = {} THEN Null
     ELSE LET k == Greatest(ks(Least(starts))) + 2
          IN SubSeq(url, k, RunEndNot(url, k, IdStop))

\* The three patterns, tried in order; the first that matches gives the id.
extractYouTubeVideoId(url) ==
  LET m1 == matchPrefixedId(url, {sWatchV, sYoutuBe, sEmbed})
      m2 == matchPrefixedId(url, {sYoutubeV})
      m3 == matchWatchAnyV(url)
  IN IF m1 # Null THEN m1 ELSE IF m2 # Null THEN m2 ELSE m3

isYouTubeUrl(url) == extractYouTubeVideoId(url) # Null

\* /vimeo\.com\/(\d+)/
extractVimeoVideoId(url) ==
  LET starts == {i \in 1..Len(url) :
                   /\ StartsAt(url, i, sVimeoCom)
                   /\ i + Len(sVimeoCom) <= Len(url)
                   /\ url[i + Len(sVimeoCom)] \in Digits}
  IN IF starts = {} THEN Null
     ELSE LET k == Least(starts) + Len(sVimeoCom)
          IN SubSeq(url, k, RunEndIn(url, k, Digits))

isVimeoUrl(url) == extractVimeoVideoId(url) # Null

getVideoPlatform(url) ==
  IF isYouTubeUrl(url) THEN "youtube"
  ELSE IF isVimeoUrl(url) THEN "vimeo" ELSE "direct"

\* `a || ''` on a string-or-null.
OrEmpty(x) == IF x = Null \/ x = <<>> THEN <<>> ELSE x

selectAdapter_VimeoFirst(url) ==
  IF isVimeoUrl(url)
  THEN [component |-> "VimeoPlayer",
        videoId |-> OrEmpty(extractVimeoVideoId(url))]
  ELSE IF isYouTubeUrl(url)
  THEN [component |-> "YouTubePlayer",
        videoId |-> OrEmpty(extractYouTubeVideoId(url))]
  ELSE [component |-> "VideoPlayer", videoId |-> Undefined]

\* The conditional rendering of VideoPlayerPage: the component mounted for
\* video.video_url and the videoId prop it is given.
selectAdapter(url) ==
  IF isYouTubeUrl(url)
  THEN [component |-> "YouTubePlayer",
        videoId |-> OrEmpty(extractYouTubeVideoId(url))]
  ELSE IF isVimeoUrl(url)
  THEN [component |-> "VimeoPlayer",
        videoId |-> OrEmpty(extractVimeoVideoId(url))]
  ELSE [component |-> "VideoPlayer", videoId |-> Undefined]

\* ---- new URL(url) ---------------------------------------------------------
\* The parser drops newlines from its input, wants a scheme (here https://;
\* there is no base URL) and a non-empty host, lower-cases the host and gives
\* an empty path as "/".  Hosts are domain names of letters, digits and dots.
NotNewline(c) == c # "\n"

UrlThrows == [ok |-> FALSE]

newURL(input) ==
  LET s == SelectSeq(input, NotNewline)
      h == Len(sHttps) + 1
      hostEnd == RunEndNot(s, h, {"/", "?", "#"})
      pathEnd == RunEndNot(s, hostEnd + 1, {"?", "#"})
      queryEnd == RunEndNot(s, pathEnd + 1, {"#"})
      path == SubSeq(s, hostEnd + 1, pathEnd)
  IN IF ~StartsAt(s, 1, sHttps) \/ hostEnd < h THEN UrlThrows
     ELSE [ok |-> TRUE,
           hostname |-> toLowerCase(SubSeq(s, h, hostEnd)),
           pathname |-> IF path = <<>> THEN <<"/">> ELSE path,
           search |-> SubSeq(s, pathEnd + 1, queryEnd)]

\* application/x-www-form-urlencoded decoding of a name or value: "+" is a
\* space (the strings here hold no "%").
formDecode(s) == [i \in 1..Len(s) |-> IF s[i] = "+" THEN " " ELSE s[i]]

\* URLSearchParams.get(name): the decoded value of the first pair with that
\* name, or null.
searchParamsGet(search, name) ==
  LET query == IF search # <<>> /\ search[1] = "?" THEN Tail(search)
               ELSE search
      pairEnd(b) == RunEndNot(query, b, {"&"})
      nameEnd(b) == RunEndNot(query, b, {"&", "="})
      starts == {b \in 1..Len(query) :
                   /\ b = 1 \/ query[b - 1] = "&"
                   /\ pairEnd(b) >= b
                   /\ formDecode(SubSeq(query, b, nameEnd(b))) = name}
  IN IF starts = {} THEN Null
     ELSE LET b == Least(starts)
          IN formDecode(SubSeq(query, nameEnd(b) + 2, pairEnd(b)))

\* !isNaN(Number(s)) for a non-empty s: an optional sign, digits and at most
\* one decimal point (no string here has an exponent or a radix prefix).
isNumeric(s) ==
  LET body == IF s # <<>> /\ s[1] \in {"+", "-"} THEN Tail(s) ELSE s
  IN /\ \E i \in 1..Len(body) : body[i] \in Digits
     /\ \A i \in 1..Len(body) : body[i] \in Digits \cup {"."}
     /\ Cardinality({i \in 1..Len(body) : body[i] = "."}) <= 1

videoExtensions ==
  {<<".", "m", "p", "4">>, <<".", "w", "e", "b", "m">>, <<".", "o", "g", "g">>,
   <<".", "m", "o", "v">>, <<".", "a", "v", "i">>}

Platform(type, videoId) == [type |-> type, videoId |-> videoId]

parseVideoUrl(url) ==
  LET urlObj == newURL(url) IN
  IF ~urlObj.ok THEN Platform("unknown", Undefined)
  ELSE
    LET hostname == toLowerCase(urlObj.hostname)
        isYouTubeHost == \/ includes(hostname, sHostYoutube)
                         \/ includes(hostname, sHostYoutuBe)
        youtubeId == IF includes(hostname, sHostYoutuBe)
                     THEN slice(urlObj.pathname, 1)
                     ELSE IF urlObj.pathname = sPathWatch
                     THEN OrEmpty(searchParamsGet(urlObj.search, sV))
                     ELSE <<>>
        vimeoId == slice(urlObj.pathname, 1)
        hasVideoExtension ==
          \E ext \in videoExtensions :
            endsWith(toLowerCase(urlObj.pathname), ext)
    IN IF isYouTubeHost /\ youtubeId # <<>>
       THEN Platform("youtube", youtubeId)
       ELSE IF /\ includes(hostname, sHostVimeo)
               /\ vimeoId # <<>> /\ isNumeric(vimeoId)
       THEN Platform("vimeo", vimeoId)
       ELSE IF hasVideoExtension THEN Platform("direct", urlObj.pathname)
       ELSE Platform("unknown", Undefined)

\* ---- thumbnails -------------------------------------------------------------
\* Image references are character sequences; the SVG and JPEG payloads are
\* kept as one element each.
placeholderVideo == <<"data:image/svg+xml;base64,", "Video">>

placeholderLoading == <<"data:image/svg+xml;base64,", "Loading thumbnail...">>

placeholderNone == <<"data:image/svg+xml;base64,", "No thumbnail available">>

capturedFrame == <<"data:image/jpeg;base64,", "frame">>

\* platform.thumbnailUrl as parseVideoUrl fills it in.
sYoutubeThumbs ==
  <<"h", "t", "t", "p", "s", ":", "/", "/", "i", "m", "g", ".", "y", "o",
    "u", "t", "u", "b", "e", ".", "c", "o", "m", "/", "v", "i", "/">>

sMaxres ==
  <<"/", "m", "a", "x", "r", "e", "s", "d", "e", "f", "a", "u", "l", "t",
    ".", "j", "p", "g">>

sVumbnail ==
  <<"h", "t", "t", "p", "s", ":", "/", "/", "v", "u", "m", "b", "n", "a",
    "i", "l", ".", "c", "o", "m", "/">>

thumbnailUrlOf(platform) ==
  CASE platform.type = "youtube" ->
         sYoutubeThumbs \o platform.videoId \o sMaxres
    [] platform.type = "vimeo" ->
         sVumbnail \o platform.videoId \o <<".", "j", "p", "g">>
    [] OTHER -> Undefined

getVideoThumbnail(url) ==
  LET platform == parseVideoUrl(url)
  IN IF thumbnailUrlOf(platform) \notin {Undefined, <<>>}
       THEN thumbnailUrlOf(platform)
       ELSE IF platform.type = "direct" THEN placeholderLoading
            ELSE placeholderNone

\* window.location.hostname of the page showing the thumbnail.
sExampleCom == <<"e", "x", "a", "m", "p", "l", "e", ".", "c", "o", "m">>

sLocalhost == <<"l", "o", "c", "a", "l", "h", "o", "s", "t">>

sLoopback == <<"1", "2", "7", ".", "0", ".", "0", ".", "1">>

Origins == {sExampleCom, sLocalhost}

Settled(promise, value) == [promise |-> promise, value |-> value]

\* generateVideoThumbnail up to the point where it waits for the <video>
\* element: a settled promise, or a pending one with the element loading.
generateVideoThumbnail(url, origin) ==
  LET u == newURL(url)
      isExternalDomain ==
        /\ u.hostname # origin
        /\ ~includes(u.hostname, sLocalhost)
        /\ ~includes(u.hostname, sLoopback)
  IN IF parseVideoUrl(url).type # "direct"
       THEN Settled("rejected", <<"Not a direct video file">>)
       ELSE IF ~u.ok THEN Settled("resolved", placeholderVideo)
       ELSE IF isExternalDomain THEN Settled("resolved", placeholderVideo)
       ELSE Settled("pending", Undefined)

\* What canvas capture can do once the element has seeked.
SeekedOutcomes == {"frame", "noContext", "canvasThrows"}

\* video.onseeked
onseeked(outcome) ==
  CASE outcome = "noContext" ->
         Settled("rejected", <<"Could not get canvas context">>)
    [] outcome = "canvasThrows" -> Settled("rejected", <<"error">>)
    [] OTHER -> Settled("resolved", capturedFrame)

\* video.onerror
onerror == Settled("resolved", placeholderVideo)

\* The .then / .catch / .finally of the VideoThumbnail effect.
thumbnailAfter(settled) ==
  IF settled.promise = "resolved" THEN settled.value ELSE placeholderVideo

\* ---- the YouTube embed URL (YouTubePlayer.getYouTubeEmbedUrl) ---------------
\* application/x-www-form-urlencoded serialisation of one name or value.
formEncode(str) == [i \in 1..Len(str) |-> IF str[i] = " " THEN "+" ELSE str[i]]

RECURSIVE paramsToString(_)
\* URLSearchParams.toString(): name=value pairs in insertion order, joined by &.
paramsToString(pairs) ==
  IF pairs = <<>> THEN <<>>
  ELSE formEncode(pairs[1][1]) \o <<"=">> \o formEncode(pairs[1][2])
         \o (IF Len(pairs) > 1 THEN <<"&">> ELSE <<>>)
         \o paramsToString(Tail(pairs))

embedParams_Unmuted(autoPlay) ==
  <<
    <<<<"a", "u", "t", "o", "p", "l", "a", "y">>,
      IF autoPlay THEN <<"1">> ELSE <<"0">>>>,
    <<<<"m", "u", "t", "e">>,
      <<"0">>>>,
    <<<<"c", "o", "n", "t", "r", "o", "l", "s">>,
      <<"1">>>>,
    <<<<"r", "e", "l">>,
      <<"0">>>>,
    <<<<"s", "h", "o", "w", "i", "n", "f", "o">>,
      <<"0">>>>,
    <<<<"i", "v", "_", "l", "o", "a", "d", "_", "p", "o", "l", "i", "c", "y">>,
      <<"3">>>>,
    <<<<"m", "o", "d", "e", "s", "t", "b", "r", "a", "n", "d", "i", "n", "g">>,
      <<"1">>>>,
    <<<<"f", "s">>,
      <<"1">>>>,
    <<<<"d", "i", "s", "a", "b", "l", "e", "k", "b">>,
      <<"0">>>>,
    <<<<"c", "c", "_", "l", "o", "a", "d", "_", "p", "o", "l", "i", "c", "y">>,
      <<"0">>>>,
    <<<<"c", "o", "l", "o", "r">>,
      <<"w", "h", "i", "t", "e">>>>,
    <<<<"p", "l", "a", "y", "s", "i", "n", "l", "i", "n", "e">>,
      <<"1">>>>
  >>

\* The object given to new URLSearchParams.
embedParams(autoPlay) ==
  <<
    <<<<"a", "u", "t", "o", "p", "l", "a", "y">>,
      IF autoPlay THEN <<"1">> ELSE <<"0">>>>,
    <<<<"m", "u", "t", "e">>,
      IF autoPlay THEN <<"1">> ELSE <<"0">>>>,
    <<<<"c", "o", "n", "t", "r", "o", "l", "s">>,
      <<"1">>>>,
    <<<<"r", "e", "l">>,
      <<"0">>>>,
    <<<<"s", "h", "o", "w", "i", "n", "f", "o">>,
      <<"0">>>>,
    <<<<"i", "v", "_", "l", "o", "a", "d", "_", "p", "o", "l", "i", "c", "y">>,
      <<"3">>>>,
    <<<<"m", "o", "d", "e", "s", "t", "b", "r", "a", "n", "d", "i", "n", "g">>,
      <<"1">>>>,
    <<<<"f", "s">>,
      <<"1">>>>,
    <<<<"d", "i", "s", "a", "b", "l", "e", "k", "b">>,
      <<"0">>>>,
    <<<<"c", "c", "_", "l", "o", "a", "d", "_", "p", "o", "l", "i", "c", "y">>,
      <<"0">>>>,
    <<<<"c", "o", "l", "o", "r">>,
      <<"w", "h", "i", "t", "e">>>>,
    <<<<"p", "l", "a", "y", "s", "i", "n", "l", "i", "n", "e">>,
      <<"1">>>>
  >>

sEmbedBase ==
  <<"h", "t", "t", "p", "s", ":", "/", "/", "w", "w", "w", ".", "y", "o", "u",
    "t", "u", "b", "e", ".", "c", "o", "m", "/", "e", "m", "b", "e", "d", "/">>

getYouTubeEmbedUrl(id, autoPlay) ==
  sEmbedBase \o id \o <<"?">> \o paramsToString(embedParams(autoPlay))

\* ---- the URLs classified ---------------------------------------------------
sampleId == <<"d", "Q", "w", "4", "w", "9", "W", "g", "X", "c", "Q">>

sampleWatchUrl ==
  sHttps \o <<"w", "w", "w", ".">> \o sWatchV
    \o sampleId

Ids == {<<"d", "Q">>, <<"a", "+", "b">>}

UrlSchemes == {sHttps, <<>>}

UrlHosts ==
  {sHostYoutube, <<"w", "w", "w", ".">> \o sHostYoutube, sHostYoutuBe,
   <<"Y", "o", "u", "t", "u", ".", "b", "e">>, sHostVimeo, sExampleCom}

UrlPaths ==
  {<<>>, sPathWatch, <<"/", "1", "2">>,
   <<"/", "c", "l", "i", "p", ".", "M", "P", "4">>}
  \cup {<<"/", "e", "m", "b", "e", "d", "/">> \o x : x \in Ids}
  \cup {<<"/", "v", "/">> \o x : x \in Ids}
  \cup {<<"/">> \o x : x \in Ids}

UrlQueries ==
  {<<>>, <<"?", "u", "=">> \o sVimeoCom \o <<"1", "2">>}
  \cup {<<"?", "u", "=">> \o sYoutuBe \o x : x \in Ids}
  \cup {<<"?">> \o sVEquals \o x : x \in Ids}
  \cup {<<"?", "t", "=", "1", "&">> \o sVEquals \o x : x \in Ids}

UrlFragments == {<<>>, <<"#", "t">>}

Urls ==
  {sc \o h \o pa \o q \o f :
     sc \in UrlSchemes, h \in UrlHosts, pa \in UrlPaths, q \in UrlQueries,
     f \in UrlFragments}
  \cup {sHttps, <<"c", "l", "i", "p">>, sampleWatchUrl}

NotSelected == [component |-> "pending", videoId |-> Undefined]

NotParsed == Platform("pending", Undefined)

\* One video URL, before anything has classified it.
UrlInit ==
  /\ request \in [endpoint : {"classify"}, url : Urls]
  /\ response = [platform |-> "pending", selected |-> NotSelected,
                 parsed |-> NotParsed, thumbnailUrl |-> <<>>,
                 isGeneratingThumbnail |-> FALSE, promise |-> "none",
                 video |-> "none", embedUrl |-> Undefined]

\* getVideoPlatform(url)
UrlGetVideoPlatform ==
  /\ request.endpoint = "classify" /\ response.platform = "pending"
  /\ response' = [response EXCEPT !.platform = getVideoPlatform(request.url)]
  /\ UNCHANGED <<request, hookVars, playerVars>>

\* VideoPlayerPage renders the player for video.video_url.
UrlSelectAdapter ==
  /\ request.endpoint = "classify" /\ response.selected = NotSelected
  /\ response' = [response EXCEPT !.selected = selectAdapter(request.url)]
  /\ UNCHANGED <<request, hookVars, playerVars>>

\* YouTubePlayer renders its iframe with src = getYouTubeEmbedUrl(videoId);
\* the page passes autoPlay = true, the prop's default.
UrlYouTubeEmbed ==
  /\ request.endpoint = "classify"
  /\ response.selected.component = "YouTubePlayer"
  /\ response.embedUrl = Undefined
  /\ \E autoPlay \in BOOLEAN :
       response' = [response EXCEPT
                      !.embedUrl = getYouTubeEmbedUrl(response.selected.videoId,
                                                      autoPlay)]
  /\ UNCHANGED <<request, hookVars, playerVars>>

\* parseVideoUrl(url)
UrlParseVideoUrl ==
  /\ request.endpoint = "classify" /\ response.parsed = NotParsed
  /\ response' = [response EXCEPT !.parsed = parseVideoUrl(request.url)]
  /\ UNCHANGED <<request, hookVars, playerVars>>

\* The promise settles: the element is released and the effect's callbacks
\* run.
ThumbnailSettle(settled) ==
  response' = [response EXCEPT !.promise = settled.promise,
                               !.video = "none",
                               !.thumbnailUrl = thumbnailAfter(settled),
                               !.isGeneratingThumbnail = FALSE]

\* VideoThumbnail's effect for videoUrl.
ThumbnailEffect ==
  /\ request.endpoint = "classify"
  /\ response.promise = "none" /\ response.thumbnailUrl = <<>>
  /\ IF parseVideoUrl(request.url).type = "direct"
       THEN \E origin \in Origins :
              LET started == generateVideoThumbnail(request.url, origin)
              IN IF started.promise = "pending"
                   THEN response' = [response EXCEPT
                                       !.promise = "pending",
                                       !.video = "loading",
                                       !.isGeneratingThumbnail = TRUE]
                   ELSE ThumbnailSettle(started)
       ELSE response' = [response EXCEPT
                           !.thumbnailUrl = getVideoThumbnail(request.url)]
  /\ UNCHANGED <<request, hookVars, playerVars>>

\* video.onloadedmetadata: currentTime is set, to 0 when the first
\* assignment throws.
ThumbnailOnLoadedMetadata ==
  /\ response.video = "loading"
  /\ response' = [response EXCEPT !.video = "seeking"]
  /\ UNCHANGED <<request, hookVars, playerVars>>

ThumbnailOnSeeked ==
  /\ response.video = "seeking"
  /\ \E outcome \in SeekedOutcomes : ThumbnailSettle(onseeked(outcome))
  /\ UNCHANGED <<request, hookVars, playerVars>>

ThumbnailOnError ==
  /\ response.video \in {"loading", "seeking"}
  /\ ThumbnailSettle(onerror)
  /\ UNCHANGED <<request, hookVars, playerVars>>

UrlNext ==
  \/ UrlGetVideoPlatform
  \/ UrlSelectAdapter
  \/ UrlParseVideoUrl
  \/ UrlYouTubeEmbed
  \/ ThumbnailEffect
  \/ ThumbnailOnLoadedMetadata
  \/ ThumbnailOnSeeked
  \/ ThumbnailOnError

(***************************************************************************)
(* Comment form (src/src/components/CommentSection.tsx)                    *)
(***************************************************************************)

\* String.prototype.trim.
trim(s) ==
  LET keep == {i \in 1..Len(s) : s[i] # " "}
  IN IF keep = {} THEN <<>> ELSE SubSeq(s, Least(keep), Greatest(keep))

\* What the user types into the textarea.
CommentTexts == {<<>>, <<" ">>, <<" ", "o", "k">>}

toastEnterComment == "Please enter a comment"
toastPosted == "Comment posted successfully!"
toastFailed == "Failed to post comment. Please try again."

\* The catch block of handleSubmit, for a rejection of an awaited promise.
submitCatch(outcome) ==
  [apiError |-> IF outcome.kind = "AppError"
                THEN [code |-> outcome.code, message |-> outcome.message]
                ELSE [code |-> "COMMENT_ERROR", message |-> toastFailed],
   toast |-> IF outcome.kind = "AppError" THEN outcome.message
             ELSE toastFailed]

\* handleSubmit after `await createComment(commentData)` settled.
afterCreateComment(result, outcome) ==
  IF result.promise = "rejected"
  THEN [submitAt |-> "idle", isSubmitting |-> FALSE,
        apiError |-> submitCatch(outcome).apiError,
        toast |-> submitCatch(outcome).toast]
  ELSE [submitAt |-> "refetch", isSubmitting |-> isSubmitting,
        apiError |-> apiError, toast |-> toast]

\* handleSubmit after `await refetch()` settled: the rest of the try block,
\* or the catch block, and the finally block.
afterRefetch(result, outcome) ==
  IF result.promise = "rejected"
  THEN [newComment |-> newComment,
        apiError |-> submitCatch(outcome).apiError,
        toast |-> submitCatch(outcome).toast]
  ELSE [newComment |-> <<>>, apiError |-> apiError, toast |-> toastPosted]

\* The component is mounted with its useCreateComment hook.
CommentInit ==
  /\ hook = "useCreateComment"
  /\ hookState = mutationInitial
  /\ calls = <<>>
  /\ hlast = 0
  /\ newComment \in CommentTexts
  /\ isSubmitting = FALSE
  /\ apiError = NoError
  /\ toast = "none"
  /\ submitAt = "idle"

KeepHook == UNCHANGED <<hook, hookState, calls, hlast>>

\* handleCommentChange(e.target.value); the textarea is disabled while
\* isSubmitting.
CommentChange ==
  /\ hook = "useCreateComment" /\ ~isSubmitting
  /\ \E value \in CommentTexts : newComment' = value
  /\ apiError' = NoError
  /\ KeepHook
  /\ UNCHANGED <<isSubmitting, toast, submitAt, apiVars, playerVars>>

\* handleSubmit up to `await createComment(commentData)`.
CommentSubmit ==
  /\ hook = "useCreateComment" /\ submitAt = "idle" /\ ~isSubmitting
  /\ IF trim(newComment) = <<>>
     THEN /\ toast' = toastEnterComment
          /\ KeepHook
          /\ UNCHANGED <<isSubmitting, apiError, submitAt>>
     ELSE /\ Len(calls) < MaxCalls
          /\ isSubmitting' = TRUE
          /\ apiError' = NoError
          /\ hookState' = mutationStart
          /\ calls' = Append(calls, NewCall(0, FALSE))
          /\ hlast' = 0
          /\ submitAt' = "createComment"
          /\ UNCHANGED <<hook, toast>>
  /\ UNCHANGED <<newComment, apiVars, playerVars>>

\* commentApi.create settles inside createComment, which then returns.
CommentCreateSettled(outcome) ==
  /\ hook = "useCreateComment" /\ submitAt = "createComment"
  /\ LET id == Len(calls)
         result == createCommentSettle(outcome)
         next == afterCreateComment(result, outcome) IN
       /\ hookState' = result.state
       /\ calls' = [calls EXCEPT ![id].promise = result.promise,
                                 ![id].ret = result.ret,
                                 ![id].outcome = outcome.kind,
                                 ![id].data = outcome.data]
       /\ hlast' = id
       /\ submitAt' = next.submitAt
       /\ isSubmitting' = next.isSubmitting
       /\ apiError' = next.apiError
       /\ toast' = next.toast
  /\ UNCHANGED <<hook, newComment, apiVars, playerVars>>

CommentCreateSettle == \E outcome \in Outcomes : CommentCreateSettled(outcome)

\* refetch of useComments (useApi.execute) settles.
CommentRefetchSettled(outcome) ==
  /\ hook = "useCreateComment" /\ submitAt = "refetch"
  /\ LET result == executeSettle(useApiInitial, outcome)
         next == afterRefetch(result, outcome) IN
       /\ newComment' = next.newComment
       /\ apiError' = next.apiError
       /\ toast' = next.toast
  /\ isSubmitting' = FALSE
  /\ submitAt' = "idle"
  /\ KeepHook
  /\ UNCHANGED <<apiVars, playerVars>>

CommentRefetchSettle ==
  \E outcome \in Outcomes : CommentRefetchSettled(outcome)

CommentNext ==
  \/ CommentChange
  \/ CommentSubmit
  \/ CommentCreateSettle
  \/ CommentRefetchSettle

vars == <<apiVars, hookVars, playerVars>>

\* A mounted player; no request and no hook call in flight.
InitPlayer == PlayerInit /\ HookIdle /\ ApiIdle

SpecPlayer == InitPlayer /\ [][PlayerNext]_vars

\* The same player driven from the keyboard.
SpecKeys == InitPlayer /\ [][KeysNext]_vars

SpecThrow == InitPlayer /\ [][ThrowNext]_vars

\* A mounted hook; no player and no client call of its own.
InitHooks == HookInit /\ ApiIdle /\ PlayerIdle

SpecHooks == InitHooks /\ [][HookNext]_vars

\* One call of a client operation.
InitApi == ApiInit /\ HookIdle /\ PlayerIdle

SpecApi == InitApi /\ [][ApiNext]_vars

\* One video URL being classified.
InitUrl == UrlInit /\ HookIdle /\ PlayerIdle

SpecUrl == InitUrl /\ [][UrlNext]_vars

\* The comment form of a video page.
InitComment == CommentInit /\ ApiIdle /\ PlayerIdle

SpecComment == InitComment /\ [][CommentNext]_vars

(***************************************************************************)
(* Claims                                                                  *)
(***************************************************************************)

\* The value a body carries: what it decodes to, looking through one level of
\* JSON-encoded string.
Carried(body) ==
  IF ~body.json THEN JUndef
  ELSE IF body.v.t = "string"
       THEN (IF body.v.s.json THEN body.v.s.v ELSE JUndef)
       ELSE body.v

\* The least k with k * limit >= total.
CeilDiv(total, limit) ==
  CHOOSE k \in 0..total : k * limit >= total /\ (k = 0 \/ (k - 1) * limit < total)

ReportsTotal(body) ==
  Carried(body).t = "object" /\ "total" \in DOMAIN Carried(body).f

\* C9: for page >= 1, limit >= 1 and a server-reported total >= 0,
\* getVideosPaginated returns hasNext = (page < ceil(total/limit)) and
\* hasPrev = (page > 1), and createPaginatedResponse's page*limit < total gives
\* the same hasNext.
C9_PaginationFlags ==
  (request.endpoint = "getVideosPaginated" /\ response # Pending
     /\ ReportsTotal(request.body)) =>
    LET T == Carried(request.body).f["total"].n IN
    /\ response.ok
    /\ response.v.pagination.hasNext = (request.page < CeilDiv(T, request.limit))
    /\ response.v.pagination.hasPrev = (request.page > 1)
    /\ response.v.pagination.hasNext =
         createPaginatedResponse(JArr(<<>>), request.page, request.limit,
                                 T).pagination.hasNext

ListEndpoints == {"getVideos", "getVideosPaginated", "getComments"}

\* The collection fields an endpoint's wrapper object may carry.
CollectionFields(endpoint) ==
  CASE endpoint = "getComments" -> {"comments"}
    [] endpoint = "getVideosPaginated" -> {"videos", "data"}
    [] OTHER -> {"videos"}

\* The list a recognised body stands for: a raw array, or the array under the
\* collection field of a wrapper object; Threw for every other shape.
RecognisedList(endpoint, body) ==
  LET v == Carried(body) IN
  IF v.t = "array" THEN Ok(v)
  ELSE IF v.t = "object"
          /\ \E k \in CollectionFields(endpoint) :
                k \in DOMAIN v.f /\ v.f[k].t = "array"
       THEN Ok(v.f[CHOOSE k \in CollectionFields(endpoint) :
                     k \in DOMAIN v.f /\ v.f[k].t = "array"])
       ELSE ParseError

ReturnedList(endpoint, resp) ==
  IF endpoint = "getVideosPaginated" THEN resp.v.data ELSE resp.v

\* C10: on the list endpoints a raw array, a wrapper object and a JSON-encoded
\* string of either normalise to the same list, and every other response shape
\* is a thrown PARSE_ERROR, never a returned value.
C10_ShapesNormaliseOrThrow ==
  (request.endpoint \in ListEndpoints /\ response # Pending) =>
    LET e == RecognisedList(request.endpoint, request.body) IN
    IF e.ok
    THEN response.ok /\ ReturnedList(request.endpoint, response) = e.v
    ELSE response = ParseError

\* C8: whatever the API call does (resolve, reject with an AppError, reject
\* with anything else), the promise of refetch / loadVideos / createVideo /
\* createComment resolves and never rejects, and a failure is left in the
\* hook's state as an error value with a code and a message.
C8_HookPromisesNeverReject ==
  /\ \A id \in 1..Len(calls) : calls[id].promise # "rejected"
  /\ (hlast # 0 /\ calls[hlast].outcome # "resolve") =>
       /\ calls[hlast].promise = "resolved"
       /\ hookState.error # NoError
       /\ hookState.error.code # "null"
       /\ hookState.error.message # "null"

\* A refetch whose API call rejected with a value that is no Error has settled.
C8_Witness ==
  /\ hook = "useApi" /\ hlast # 0
  /\ calls[hlast].outcome = "other" /\ calls[hlast].promise = "resolved"
  /\ hookState.error.code = "UNKNOWN_ERROR"

(***************************************************************************)
(* Player claims, checked under SpecPlayer                                 *)
(***************************************************************************)

\* C1: in every reachable state of a player instance at most one
\* controls-hide timer is pending; every earlier one has been cancelled.
C1_AtMostOneHideTimer == Len(hideTimers) <= 1

\* C2: after handleVolumeChange([v]) the stored volume is v, muted is true
\* when v = 0 and false when v > 0 (whether it was muted before or not), on the
\* native hook and on the Vimeo adapter.
C2_VolumeMuteRule ==
  [][\A v \in VolumeInputs :
       (NativeHandleVolumeChangeTo(v) \/ VimeoHandleVolumeChangeTo(v)) =>
         /\ state'.volume = v
         /\ v = 0 => state'.muted
         /\ v > 0 => ~state'.muted]_vars

\* A volume other than the initial 0.8 is stored only by handleVolumeChange:
\* here it has unmuted a Vimeo player, and muted it again at 0.
C2_Witness ==
  /\ adapter = "vimeo" /\ mounted
  /\ \/ state.volume = 50 /\ ~state.muted /\ forwarded.cmd = "setVolume"
     \/ state.volume = 0 /\ state.muted /\ forwarded.cmd = "setVolume"

\* C3: the seek time handleSeek forwards to the engine (seekTo or
\* setCurrentTime) is never negative and never greater than the known
\* duration, whatever fraction is requested.  Times are in hundredths of a
\* second, the duration in seconds.
C3_SeekTimeWithinDuration ==
  forwarded.cmd \in {"seekTo", "setCurrentTime"} =>
    /\ forwarded.time >= 0
    /\ forwarded.time <= 100 * state.duration

\* C4: the played fraction stored in player state is within [0,1] (0..100
\* hundredths) in every reachable state.
C4_PlayedWithinUnit ==
  adapter \in {"native", "vimeo"} => (state.played >= 0 /\ state.played <= 100)

\* C5: once error is set on a player instance nothing clears it in place: a
\* step that takes error from non-null to null is a remount, leaving the
\* adapter's initial state and no controller bound to a removed iframe.
C5_ErrorClearedOnlyByRemount ==
  [][(state.error # "null" /\ state'.error = "null") =>
       (state' = initialState(adapter) /\ player' = "null")]_vars

\* C6: after a player instance is unmounted nothing it armed remains: no
\* hide timer, no polling interval or timeout, no injected script tag.
C6_NothingRemainsAfterUnmount ==
  (adapter \in Adapters /\ ~mounted) =>
    /\ hideTimers = <<>>
    /\ pollInterval = NoTimer
    /\ pollTimeout = NoTimer
    /\ scriptTags = 0

\* C7 as stated: every adapter instance starts, on mount, with loading=true,
\* playing=false, muted=true, volume=0.8, playbackRate=1, showControls=true,
\* played=0, duration=0, error=null (the YouTube adapter holds only error).
C7_AllStartPaused ==
  fresh =>
    /\ state.error = "null"
    /\ adapter # "youtube" =>
         /\ state.loading /\ ~state.playing /\ state.muted
         /\ state.volume = 80 /\ state.playbackRate = 100
         /\ state.showControls /\ state.played = 0 /\ state.duration = 0

\* C7 amended: on mount the native adapter is in the stated state, the Vimeo
\* adapter is in that state except that playing=true, and the YouTube adapter
\* holds error=null only.
C7_InitialStatePerAdapter ==
  fresh =>
    /\ state.error = "null"
    /\ adapter # "youtube" =>
         /\ state.loading /\ state.muted
         /\ state.volume = 80 /\ state.playbackRate = 100
         /\ state.showControls /\ state.played = 0 /\ state.duration = 0
         /\ state.playing = (adapter = "vimeo")
    /\ adapter = "native" => ~state.buffering

C7_Witness ==
  /\ adapter = "vimeo" /\ mounted /\ fresh
  /\ state.playing /\ state.loading /\ state.muted

(***************************************************************************)
(* URL classification claims, checked under SpecUrl                        *)
(***************************************************************************)

\* C11: for every video URL exactly one adapter is selected: YouTube when
\* the YouTube pattern matches (also when the Vimeo pattern matches too),
\* else Vimeo when the Vimeo pattern matches, else the native adapter, and
\* getVideoPlatform names the same platform; no URL raises an error.
C11_AdapterPrecedence ==
  LET yt == isYouTubeUrl(request.url)
      vm == isVimeoUrl(request.url)
  IN /\ response.selected # NotSelected =>
          /\ yt => response.selected.component = "YouTubePlayer"
          /\ (~yt /\ vm) => response.selected.component = "VimeoPlayer"
          /\ (~yt /\ ~vm) => response.selected.component = "VideoPlayer"
     /\ response.platform # "pending" =>
          /\ yt => response.platform = "youtube"
          /\ (~yt /\ vm) => response.platform = "vimeo"
          /\ (~yt /\ ~vm) => response.platform = "direct"

\* A URL matching both patterns has been given to the YouTube adapter.
C11_Witness ==
  /\ request.endpoint = "classify"
  /\ isYouTubeUrl(request.url) /\ isVimeoUrl(request.url)
  /\ response.selected.component = "YouTubePlayer"

\* C12: for every id X free of & ? # and newline, each of
\* https://youtube.com/watch?v=X, https://youtu.be/X and
\* https://youtube.com/embed/X is classified youtube with id exactly X, by
\* parseVideoUrl and by extractYouTubeVideoId.
C12_YouTubeFormsGiveId ==
  \A x \in Ids :
    request.url \in {sHttps \o sWatchV \o x, sHttps \o sYoutuBe \o x,
                     sHttps \o sEmbed \o x} =>
      /\ response.parsed # NotParsed =>
           response.parsed = Platform("youtube", x)
      /\ response.selected # NotSelected =>
           response.selected = [component |-> "YouTubePlayer", videoId |-> x]

\* C13: thumbnail resolution is total: for every URL and every outcome of
\* the frame capture, the promise of generateVideoThumbnail does not reject,
\* and once resolution has finished the thumbnail is a non-empty image
\* reference.
C13_ThumbnailNeverRejects ==
  /\ response.promise # "rejected"
  /\ (response.promise = "resolved") => response.thumbnailUrl # <<>>

\* C16: the embed URL built for a classified YouTube id is
\* https://www.youtube.com/embed/<id>? followed by the query string; with
\* autoplay on the query contains autoplay=1&mute=1&controls=1&rel=0, and
\* whenever autoplay=1 is emitted mute=1 is emitted too.
C16_EmbedUrlParameters ==
  response.embedUrl # Undefined =>
    LET url == response.embedUrl
        id == extractYouTubeVideoId(request.url)
        head == sEmbedBase \o id \o <<"?">>
        query == SubSeq(url, Len(head) + 1, Len(url))
        autoplayOn == includes(query, <<"a", "u", "t", "o", "p", "l", "a",
                                          "y", "=", "1">>)
    IN /\ StartsAt(url, 1, head)
       /\ autoplayOn => includes(query, <<"m", "u", "t", "e", "=", "1">>)
       /\ autoplayOn =>
            includes(query,
                     <<"a", "u", "t", "o", "p", "l", "a", "y", "=", "1", "&",
                       "m", "u", "t", "e", "=", "1", "&", "c", "o", "n", "t",
                       "r", "o", "l", "s", "=", "1", "&", "r", "e", "l", "=",
                       "0">>)
       /\ ~autoplayOn => includes(query, <<"a", "u", "t", "o", "p", "l", "a",
                                          "y", "=", "0">>)

\* The embed URL of https://www.youtube.com/watch?v=dQw4w9WgXcQ, autoplay
\* on.
C16_Witness ==
  /\ request.endpoint = "classify"
  /\ request.url = sampleWatchUrl
  /\ response.embedUrl # Undefined
  /\ StartsAt(response.embedUrl, 1, sEmbedBase \o sampleId \o <<"?">>)
  /\ includes(response.embedUrl, <<"a", "u", "t", "o", "p", "l", "a", "y", "=",
                                "1", "&", "m", "u", "t", "e", "=", "1">>)

(***************************************************************************)
(* Keyboard claims, checked under SpecKeys                                 *)
(***************************************************************************)

\* C14: pressing Space always inverts the play state: on the native adapter
\* the playing flag is inverted, and on the Vimeo adapter the key issues a
\* play when the player is paused and a pause when it is playing.
C14_SpaceInvertsPlayState ==
  [][/\ NativeKeySpace => state'.playing = ~state.playing
     /\ VimeoKeySpace =>
          forwarded'.cmd = IF state.playing THEN "pause" ELSE "play"]_vars

\* C15: ArrowRight forwards min(t + 10, d) and ArrowLeft max(t - 10, 0), so
\* the target lies within [0, d]; d is state.duration on the native adapter
\* and the duration fetched during the key press on the Vimeo adapter.
C15_ArrowKeysClamp ==
  [][\A t \in KeyTimes :
       /\ NativeKeyArrowRightAt(t) =>
            /\ forwarded'.cmd = "seekToFraction"
            /\ forwarded'.time =
                 IF t + 10 < state.duration THEN t + 10 ELSE state.duration
       /\ NativeKeyArrowLeftAt(t) =>
            /\ forwarded'.cmd = "seekToFraction"
            /\ forwarded'.time = IF t > 10 THEN t - 10 ELSE 0
            /\ forwarded'.time <= state.duration
       /\ \A d \in {0} \cup Durations :
            VimeoKeyArrowRightWith(t, d) =>
              /\ forwarded'.cmd = "setCurrentTime"
              /\ forwarded'.time = 100 * (IF t + 10 < d THEN t + 10 ELSE d)
       /\ VimeoKeyArrowLeftAt(t) =>
            /\ forwarded'.cmd = "setCurrentTime"
            /\ forwarded'.time = 100 * (IF t > 10 THEN t - 10 ELSE 0)]_vars

\* ArrowRight on Vimeo has forwarded the fetched duration while the cached
\* duration state is still 0.
C15_Witness ==
  /\ adapter = "vimeo" /\ mounted
  /\ state.duration = 0
  /\ forwarded = [cmd |-> "setCurrentTime", time |-> 6000]

(***************************************************************************)
(* Controls timer, duration polling, ready signal and buffering            *)
(***************************************************************************)

\* The newest pending hide timer has its full 3000 ms to run.
HideTimerArmed(timers) == timers # <<>> /\ timers[Len(timers)] = HideDelay

\* C17: every play/pause toggle (the controls button or Space), every
\* click-to-toggle and every ready transition re-arms the 3-second hide
\* timer, so that the controls are hidden 3000 ms later.
C17_ToggleArmsHideTimer ==
  [][(\/ NativeHandlePlayPause \/ NativeKeySpace
      \/ VimeoHandlePlayPause \/ VimeoKeySpace
      \/ NativeHandleVideoClick \/ VimeoHandleVideoClick
      \/ NativeHandleLoad \/ VimeoLoaded) => HideTimerArmed(hideTimers')]_vars

\* C18: duration polling runs only while the duration is still 0 (it starts
\* only then and stops at the first positive read), and the moment it gives
\* up, 10 s after the player became ready, is never moved later by a
\* re-render.
C18_PollingOnlyWithoutDuration ==
  [][/\ pollInterval' # NoTimer => state'.duration = 0
     /\ (pollTimeout # NoTimer /\ pollTimeout' # NoTimer) =>
          pollTimeout' <= pollTimeout]_vars

\* C19: every ready/loaded signal leaves loading = false and error = null
\* with the hide timer armed, adopts the duration the signal carries and
\* keeps the duration when it carries none; playing, volume, muted, played
\* and playbackRate are unchanged.
C19_ReadySignal ==
  [][LET Kept == /\ state'.playing = state.playing
                 /\ state'.volume = state.volume
                 /\ state'.muted = state.muted
                 /\ state'.played = state.played
                 /\ state'.playbackRate = state.playbackRate
         Ready == /\ ~state'.loading
                  /\ state'.error = "null"
                  /\ HideTimerArmed(hideTimers')
     IN /\ \A d \in {0} \cup Durations :
             NativeHandleLoadWith(d) =>
               /\ Ready /\ Kept
               /\ state'.duration = IF d # 0 THEN d ELSE state.duration
        /\ VimeoLoaded =>
             /\ Ready /\ Kept
             /\ state'.duration = state.duration]_vars

\* After a ready signal on the native player: loading is over, the duration
\* is known, and a second hide timer has just been armed.
C19_Witness ==
  /\ adapter = "native" /\ mounted
  /\ ~state.loading /\ state.error = "null"
  /\ state.duration = 60 /\ state.played = 50
  /\ HideTimerArmed(hideTimers) /\ Len(hideTimers) = 2

\* C20: after every progress event with loaded fraction L and played
\* fraction P (in hundredths), buffering is true when L - P < 0.1 and false
\* otherwise, L = 0 and P = 1 included.
C20_BufferingFollowsProgress ==
  [][\A p \in ProgressPlayed, l \in ProgressLoaded, d \in {0} \cup Durations :
       NativeOnProgressWith(p, l, d) => state'.buffering = (l - p < 10)]_vars

\* C21: a user action stays optimistic when the engine call it forwards
\* throws synchronously: the local state is the one the handler leaves when
\* the engine accepts the command (played = the requested fraction, muted
\* toggled, volume and mute rule applied, rate set).
C21_OptimisticDespiteThrow ==
  [][/\ \A f \in SeekFractions :
          /\ NativeHandleSeekThrows(f) => state' = handleSeek(state, f)
          /\ VimeoHandleSeekThrows(f) => state' = vimeoHandleSeek(state, f)
     /\ \A v \in VolumeInputs :
          VimeoHandleVolumeChangeThrows(v)
            => state' = vimeoHandleVolumeChange(state, v)
     /\ VimeoHandleMuteToggleThrows
          => state' = vimeoHandleMuteToggle(state, player)
     /\ \A r \in RateInputs :
          VimeoHandlePlaybackRateChangeThrows(r)
            => state' = vimeoHandlePlaybackRateChange(state, r)]_vars

\* C22: useApi.execute is not reentrancy-safe.  A second execute cancels
\* nothing, and whichever response arrives writes the hook state, also when
\* a later execute has been started or has already been answered; so the
\* response of an earlier request can replace the data of a later one.
C22_LastArrivalWins ==
  [][/\ UseApiRefetch =>
          /\ Len(calls') = Len(calls) + 1
          /\ \A j \in 1..Len(calls) : calls'[j] = calls[j]
     /\ \A id \in 1..MaxCalls, outcome \in Outcomes :
          UseApiSettleWith(id, outcome) =>
            /\ hookState' = executeSettle(hookState, outcome).state
            /\ \A j \in 1..Len(calls) : j # id => calls'[j] = calls[j]]_vars

\* The second execute was answered first and the first one last: the hook
\* shows the data of the first request, which differ from the second's.
C22_Witness ==
  /\ hook = "useApi" /\ Len(calls) >= 2 /\ hlast = 1
  /\ calls[1].outcome = "resolve" /\ calls[2].outcome = "resolve"
  /\ calls[1].data # calls[2].data
  /\ hookState.loading = "success" /\ hookState.data = calls[1].data

\* The items of pages 1..n, in order, each page once.
RECURSIVE PagesUpTo(_)
PagesUpTo(n) == IF n <= 0 THEN <<>> ELSE PagesUpTo(n - 1) \o PageItems(n)

\* C23: in useVideosPaginated, whatever the interleaving of loadNextPage,
\* refresh and response arrivals, once a response has been applied `videos`
\* is the in-order concatenation of pages 1..`page`, each page exactly once.
C23_VideosArePagesInOrder ==
  (/\ hook = "useVideosPaginated"
   /\ hlast # 0 /\ calls[hlast].outcome = "resolve")
    => hookState.videos = PagesUpTo(hookState.page)

\* C24: a keydown whose target is outside the player container and is not
\* document.body triggers no play/pause, seek or fullscreen action and is
\* not default-prevented, on the native and on the Vimeo adapter.
C24_KeysOnlyWhenFocused ==
  [][\A key \in Keys :
       /\ NativeKeydown(key, "outside") =>
            /\ ~nativePreventsDefault(key, "outside")
            /\ UNCHANGED <<state, forwarded>>
       /\ VimeoKeydown(key, "outside") =>
            /\ ~vimeoPreventsDefault(key, "outside")
            /\ UNCHANGED <<state, forwarded>>]_vars

\* C25: a mounted Vimeo adapter injects the control script and constructs
\* the controller on mount only: no script is loading once the controller
\* exists, and each engine event has at most one registered listener.
C25_ScriptAndControllerOnce ==
  (adapter = "vimeo" /\ mounted) =>
    /\ player # "null" => scriptPending = 0
    /\ listeners <= 1

\* C26: on the native adapter a mouse-move over the container only reveals
\* the controls and restarts the hide timer: playing, volume, muted, played
\* and playbackRate are the same after it as before.
C26_MouseMoveKeepsPlayState ==
  [][NativeMouseMove =>
       /\ state'.playing = state.playing
       /\ state'.volume = state.volume
       /\ state'.muted = state.muted
       /\ state'.played = state.played
       /\ state'.playbackRate = state.playbackRate]_vars

\* C27: on the native adapter the engine's onPlay / onPause, reported after
\* the user set playing, leaves `playing` as the user set it, and `playing`
\* then equals the engine's play state.
C27_EngineEventKeepsPlaying ==
  [][(NativeOnPlay \/ NativeOnPause) =>
       /\ state'.playing = state.playing
       /\ state'.playing = enginePlaying']_vars

\* C28: handleSubmit reports success (success toast, input cleared) only if
\* the comment was created; when createComment returned false the text is
\* kept, an error is shown and no success is reported.
C28_SuccessOnlyIfCreated ==
  [][\A outcome \in Outcomes :
       CommentRefetchSettled(outcome) =>
         /\ toast' = toastPosted => calls[Len(calls)].ret = "true"
         /\ calls[Len(calls)].ret = "false" =>
              /\ newComment' = newComment
              /\ apiError' # NoError
              /\ toast' # toastPosted]_vars

\* C29: the two URL classifiers agree on every URL: the platform of
\* getVideoPlatform equals the type of parseVideoUrl (its `unknown` read as
\* direct), and for a youtube or vimeo URL both extract the same video id.
C29_ClassifiersAgree ==
  (response.platform # "pending" /\ response.parsed # NotParsed) =>
    LET type == IF response.parsed.type = "unknown" THEN "direct"
                ELSE response.parsed.type
    IN /\ response.platform = type
       /\ type = "youtube" =>
            extractYouTubeVideoId(request.url) = response.parsed.videoId
       /\ type = "vimeo" =>
            extractVimeoVideoId(request.url) = response.parsed.videoId

\* C30: in every reachable state of useApi, whatever the interleaving of
\* execute, reset and response arrivals: error is non-null exactly when
\* loading = 'error'; loading = 'error' implies data = null; loading =
\* 'success' implies error = null; and starting an execute keeps the
\* previous data while setting loading = 'loading' and error = null.
C30_UseApiStateConsistent ==
  /\ [](hook = "useApi" =>
          /\ hookState.error # NoError <=> hookState.loading = "error"
          /\ hookState.loading = "error" => hookState.data = "null"
          /\ hookState.loading = "success" => hookState.error = NoError)
  /\ [][UseApiRefetch =>
          /\ hookState'.data = hookState.data
          /\ hookState'.loading = "loading"
          /\ hookState'.error = NoError]_vars

\* The first call's success arrived after the second call's failure, and
\* a third execute has started: it keeps the data that success wrote.
C30_Witness ==
  /\ hook = "useApi" /\ Len(calls) = 3
  /\ calls[1].outcome = "resolve" /\ calls[2].outcome = "AppError"
  /\ calls[3].promise = "pending"
  /\ hookState.loading = "loading" /\ hookState.error = NoError
  /\ hookState.data = calls[1].data

====
